---- MODULE Spec2Model ----
(***************************************************************************)
(* Model of the streaming JSON parser of src/src/index.ts (class           *)
(* JsonParser, lines 34-341): the character cursor (#text, #index), the    *)
(* recursive-descent builders, the partial nodes made by #wrapResult       *)
(* ({data, wait}) and resolve().                                           *)
(*                                                                         *)
(* The builders are async functions that suspend only in #peek, on the     *)
(* character source.  The grammar is sequential, so the suspended builders *)
(* form a call stack; one step of a builder examines the next character(s) *)
(* of the cursor and runs the synchronous code that follows.               *)
(***************************************************************************)
EXTENDS Integers, Sequences, FiniteSets, TLC

\* ---------------------------------------------------------------- bounds
\* Number of resolve() calls a caller makes in one run.
MaxCalls == 1
\* Length of the exhaustively generated (mostly malformed) documents.
MaxGen == 2

\* ------------------------------------------------------------ characters
\* Characters are one-character strings; a text is a sequence of them.
Digits == {"0", "1", "2", "3", "4", "5", "6", "7", "8", "9"}

\* src/src/index.ts:216  #numbers = '0123456789'
numbers == Digits

LowerLetters ==
  {"a", "b", "c", "d", "e", "f", "g", "h", "i", "j", "k", "l", "m",
   "n", "o", "p", "q", "r", "s", "t", "u", "v", "w", "x", "y", "z"}

UpperLetters ==
  {"A", "B", "C", "D", "E", "F", "G", "H", "I", "J", "K", "L", "M",
   "N", "O", "P", "Q", "R", "S", "T", "U", "V", "W", "X", "Y", "Z"}

\* An identifier alphabet without the digits.
letters_noDigits == LowerLetters \cup UpperLetters \cup {"_"}

\* src/src/index.ts:250  #letters
letters == LowerLetters \cup UpperLetters \cup {"_"} \cup Digits

\* A whitespace test that knows the space only.
isWhitespace_spaceOnly(char) == char = " "

\* src/src/index.ts:45-47  #isWhitespace
isWhitespace(char) == char \in {" ", "\n", "\t", "\r"}

\* Printable ASCII, code 32 + (i - 1) at position i.
Ascii ==
  <<" ", "!", "\"", "#", "$", "%", "&", "'", "(", ")", "*", "+", ",", "-",
    ".", "/", "0", "1", "2", "3", "4", "5", "6", "7", "8", "9", ":", ";",
    "<", "=", ">", "?", "@", "A", "B", "C", "D", "E", "F", "G", "H", "I",
    "J", "K", "L", "M", "N", "O", "P", "Q", "R", "S", "T", "U", "V", "W",
    "X", "Y", "Z", "[", "\\", "]", "^", "_", "U+96", "a", "b", "c", "d", "e",
    "f", "g", "h", "i", "j", "k", "l", "m", "n", "o", "p", "q", "r", "s",
    "t", "u", "v", "w", "x", "y", "z", "{", "|", "}", "~">>

\* String.fromCharCode (src/src/index.ts:295, 298): the argument is taken
\* modulo 2^16 (ToUint16); the result is one UTF-16 code unit.  Code units
\* outside printable ASCII are written "U+<code>".
fromCharCode(code) ==
  LET u == code % 65536
  IN  IF u \in 32..126 THEN Ascii[u - 31]
      ELSE IF u = 9 THEN "\t"
      ELSE IF u = 10 THEN "\n"
      ELSE IF u = 12 THEN "\f"
      ELSE IF u = 13 THEN "\r"
      ELSE "U+" \o ToString(u)

DigitVal(c) ==
  CASE c = "0" -> 0 [] c = "1" -> 1 [] c = "2" -> 2 [] c = "3" -> 3
    [] c = "4" -> 4 [] c = "5" -> 5 [] c = "6" -> 6 [] c = "7" -> 7
    [] c = "8" -> 8 [] c = "9" -> 9

HexDigits == Digits \cup {"a", "b", "c", "d", "e", "f", "A", "B", "C", "D", "E", "F"}

HexVal(c) ==
  IF c \in Digits THEN DigitVal(c)
  ELSE CASE c \in {"a", "A"} -> 10 [] c \in {"b", "B"} -> 11
         [] c \in {"c", "C"} -> 12 [] c \in {"d", "D"} -> 13
         [] c \in {"e", "E"} -> 14 [] c \in {"f", "F"} -> 15

Tail2(s, n) == SubSeq(s, n + 1, Len(s))

RECURSIVE HexPrefixVal(_, _, _)
\* Value of the longest prefix of s made of hex digits, acc so far; seen
\* tells whether a digit was read.  Result <<seen, value>>.  Only the low
\* 16 bits of the value are used by fromCharCode, so the value is kept
\* modulo 2^16.
HexPrefixVal(s, acc, seen) ==
  IF s # <<>> /\ s[1] \in HexDigits
  THEN HexPrefixVal(Tail(s), (acc * 16 + HexVal(s[1])) % 65536, TRUE)
  ELSE <<seen, acc>>

RECURSIVE SkipWs(_)
SkipWs(s) == IF s # <<>> /\ isWhitespace(s[1]) THEN SkipWs(Tail(s)) ELSE s

\* parseInt(s, 16) followed by String.fromCharCode (src/src/index.ts:294-295):
\* leading whitespace, an optional sign and an optional 0x prefix are
\* accepted, then the longest run of hex digits; no digit gives NaN, and
\* fromCharCode(NaN) is the code unit 0.
parseIntHexChar(s) ==
  LET t    == SkipWs(s)
      neg  == t # <<>> /\ t[1] = "-"
      u    == IF t # <<>> /\ t[1] \in {"-", "+"} THEN Tail(t) ELSE t
      v    == IF Len(u) >= 2 /\ u[1] = "0" /\ u[2] \in {"x", "X"}
              THEN Tail2(u, 2) ELSE u
      r    == HexPrefixVal(v, 0, FALSE)
      code == IF ~r[1] THEN 0
              ELSE IF neg THEN (65536 - (r[2] % 65536)) % 65536
              ELSE r[2] % 65536
  IN  fromCharCode(code)

\* --------------------------------------------------------------- numbers
\* A number is (-1)^neg * mant / 10^exp, or NaN; trailing fraction zeros
\* are dropped so that equal numbers are equal records.
NaN == [nan |-> TRUE, neg |-> FALSE, mant |-> 0, exp |-> 0]
Num(neg, mant, exp) == [nan |-> FALSE, neg |-> neg, mant |-> mant, exp |-> exp]
Zero == Num(FALSE, 0, 0)

RECURSIVE Normal(_, _, _)
Normal(neg, mant, exp) ==
  IF exp > 0 /\ mant % 10 = 0 THEN Normal(neg, mant \div 10, exp - 1)
  ELSE Num(neg, mant, exp)

RECURSIVE DecVal(_, _)
DecVal(s, acc) ==
  IF s = <<>> THEN acc ELSE DecVal(Tail(s), acc * 10 + DigitVal(s[1]))

AllDigits(s) == \A i \in 1..Len(s) : s[i] \in Digits

\* A conversion by the JSON number grammar, which has no digitless fraction
\* or integer part: "12." and ".5" are NaN.
Number_jsonGrammar(str) ==
  LET neg  == str # <<>> /\ str[1] = "-"
      body == IF neg THEN Tail(str) ELSE str
      dots == {i \in 1..Len(body) : body[i] = "."}
  IN  IF Cardinality(dots) > 1 THEN NaN
      ELSE IF dots = {}
           THEN IF body # <<>> /\ AllDigits(body)
                THEN Num(neg, DecVal(body, 0), 0) ELSE NaN
           ELSE LET d    == CHOOSE i \in dots : TRUE
                    ip   == SubSeq(body, 1, d - 1)
                    fp   == SubSeq(body, d + 1, Len(body))
                IN  IF Len(ip) > 0 /\ Len(fp) > 0 /\ AllDigits(ip) /\ AllDigits(fp)
                    THEN Normal(neg, DecVal(ip \o fp, 0), Len(fp))
                    ELSE NaN

\* Number(str) (src/src/index.ts:235) for a str made of '-', digits and '.':
\* an optional sign, digits with at most one dot and at least one digit;
\* anything else ("-", "1.2.3", "-.") is NaN.
Number(str) ==
  LET neg  == str # <<>> /\ str[1] = "-"
      body == IF neg THEN Tail(str) ELSE str
      dots == {i \in 1..Len(body) : body[i] = "."}
  IN  IF Cardinality(dots) > 1 THEN NaN
      ELSE IF dots = {}
           THEN IF body # <<>> /\ AllDigits(body)
                THEN Num(neg, DecVal(body, 0), 0) ELSE NaN
           ELSE LET d    == CHOOSE i \in dots : TRUE
                    ip   == SubSeq(body, 1, d - 1)
                    fp   == SubSeq(body, d + 1, Len(body))
                IN  IF Len(ip) + Len(fp) > 0 /\ AllDigits(ip) /\ AllDigits(fp)
                    THEN Normal(neg, DecVal(ip \o fp, 0), Len(fp))
                    ELSE NaN

\* ----------------------------------------------------------------- nodes
\* The snapshot (data) of a JSONStreamResult.  One record shape serves all
\* kinds: s for strings, n for numbers, b for booleans, and for containers
\* items (the children, as node ids) with, for objects, keys[i] the key of
\* items[i] in the enumeration order of the JavaScript object.
NoData == [s |-> <<>>, n |-> Zero, b |-> FALSE, items |-> <<>>, keys |-> <<>>]

UnexpectedEndOfInput == "UnexpectedEndOfInput"
UnexpectedToken == "UnexpectedToken"
InvalidEscapeSequence == "InvalidEscapeSequence"

\* An own property name that is an array index ("0", "7", "12"), which a
\* JavaScript object enumerates before the other names, in numeric order.
IsIndexKey(k) ==
  /\ k # <<>>
  /\ AllDigits(k)
  /\ (Len(k) = 1 \/ k[1] # "0")
  /\ Len(k) <= 9

InsertAt(seq, i, x) == SubSeq(seq, 1, i - 1) \o <<x>> \o SubSeq(seq, i, Len(seq))

\* data[key] = val on a mapping that keeps every new key last, whatever the
\* key (a Map).
ObjSet_insertionOrder(data, key, val) ==
  IF \E i \in 1..Len(data.keys) : data.keys[i] = key
  THEN LET i == CHOOSE j \in 1..Len(data.keys) : data.keys[j] = key
       IN  [data EXCEPT !.items[i] = val]
  ELSE [data EXCEPT !.keys = Append(data.keys, key),
                    !.items = Append(data.items, val)]

\* data[key] = val on a JavaScript object (src/src/index.ts:179): an
\* existing key keeps its place and gets the new value; a new array-index
\* key goes among the index keys in ascending order; any other new key
\* goes last.
ObjSet(data, key, val) ==
  IF \E i \in 1..Len(data.keys) : data.keys[i] = key
  THEN LET i == CHOOSE j \in 1..Len(data.keys) : data.keys[j] = key
       IN  [data EXCEPT !.items[i] = val]
  ELSE IF IsIndexKey(key)
       THEN LET before == {i \in 1..Len(data.keys) :
                             /\ IsIndexKey(data.keys[i])
                             /\ DecVal(data.keys[i], 0) < DecVal(key, 0)}
                pos    == Cardinality(before) + 1
            IN  [data EXCEPT !.keys = InsertAt(data.keys, pos, key),
                             !.items = InsertAt(data.items, pos, val)]
       ELSE [data EXCEPT !.keys = Append(data.keys, key),
                         !.items = Append(data.items, val)]

\* ------------------------------------------------------- parser state
\* The parser state is handled as one record s:
\*   text, index  the cursor (#text, #index)
\*   nodes        the JSONStreamResults created so far, by creation order
\*   stack        the suspended async functions, innermost last
\*   stream       the promise #stream returned by the root parseValue()
\*   signal       the error thrown by a parseValue() call to the container
\*                that awaits it ("none" when there is none)
Frame(fn, pc, node, flag) ==
  [fn |-> fn, pc |-> pc, node |-> node, key |-> 0, val |-> 0,
   str |-> <<>>, flag |-> flag]

\* A constructor that makes an (object) root node at once.
NewParser_eagerRoot ==
  [text |-> <<>>, index |-> 0,
   nodes |-> <<[kind |-> "object", data |-> NoData, wait |-> "pending",
                err |-> "none", value |-> NoData, parent |-> 0,
                assigned |-> 0]>>,
   stack |-> <<Frame("parseObject", "open", 1, FALSE)>>,
   stream |-> [state |-> "fulfilled", node |-> 1, err |-> "none"],
   signal |-> "none"]

\* src/src/index.ts:40-43  constructor: #stream = this.parseValue()
NewParser ==
  [text |-> <<>>, index |-> 0, nodes |-> <<>>,
   stack |-> <<Frame("parseValue", "skip", 0, TRUE)>>,
   stream |-> [state |-> "pending", node |-> 0, err |-> "none"],
   signal |-> "none"]

Top(s) == s.stack[Len(s.stack)]

\* After a dispatch the awaiting container resumes (and attaches the child)
\* before the child's builder gets past its first cursor read, so a
\* container at "attach" runs before the child above it.
ActiveIdx(s) ==
  IF Len(s.stack) >= 2 /\ s.stack[Len(s.stack) - 1].pc = "attach"
  THEN Len(s.stack) - 1 ELSE Len(s.stack)

Active(s) == s.stack[ActiveIdx(s)]

SetPc(s, pc) == [s EXCEPT !.stack[Len(s.stack)].pc = pc]
PopFrame(s) == [s EXCEPT !.stack = SubSeq(s.stack, 1, Len(s.stack) - 1)]
PushFrame(s, f) == [s EXCEPT !.stack = Append(s.stack, f)]

\* ---------------------------------------------------------------- cursor
\* src/src/index.ts:61-69  #peek: len characters are buffered past index
Avail(s, len) == Len(s.text) >= s.index + len

peek(s, len) == SubSeq(s.text, s.index + 1, s.index + len)

\* src/src/index.ts:49-53  #next: the index advances by len, also when
\* #peek returned undefined at the end of the source
next(s, len) == [s EXCEPT !.index = s.index + len]

\* ------------------------------------------------------------ #wrapResult
\* #wrapResult with a wait that does not follow the callback: it is resolved
\* from the start, with the initial data.
wrapResult_resolved(s, kind, initialData, parent) ==
  [s EXCEPT !.nodes = Append(s.nodes,
     [kind |-> kind, data |-> initialData, wait |-> "resolved",
      err |-> "none", value |-> initialData, parent |-> parent,
      assigned |-> 0])]

\* src/src/index.ts:122-126: the node {data: initialData, wait: pending}.
\* parent is the node whose builder made this one (0 for the root): the
\* container for a value and for a key, the key for its string or
\* identifier.  assigned counts the assignments result.data = newData made
\* since: while it is 0, data is the very value (the same array or object)
\* the node was made with.
wrapResult(s, kind, initialData, parent) ==
  [s EXCEPT !.nodes = Append(s.nodes,
     [kind |-> kind, data |-> initialData, wait |-> "pending",
      err |-> "none", value |-> NoData, parent |-> parent, assigned |-> 0])]

\* src/src/index.ts:113-119  update(data): the snapshot is replaced.  No
\* call site of the builders passes undefined.
update(s, n, newData) ==
  [s EXCEPT !.nodes[n].data = newData,
            !.nodes[n].assigned = s.nodes[n].assigned + 1]

\* An attachment made by a plain update with a copy of the container
\* (update(data => [...data, val])): result.data is assigned a new one.
updateDeep_copy(s, n, mutated) ==
  [s EXCEPT !.nodes[n].data = mutated,
            !.nodes[n].assigned = s.nodes[n].assigned + 1]

\* src/src/index.ts:102-112  update(fn, true): the snapshot is mutated in
\* place by fn, which returns nothing.
updateDeep(s, n, mutated) == [s EXCEPT !.nodes[n].data = mutated]

\* Completion with wait resolving to the initial data instead of the
\* current data.
Complete_initial(s) ==
  LET n == Top(s).node
  IN  PopFrame([s EXCEPT !.nodes[n].wait = "resolved",
                         !.nodes[n].value =
                           IF s.nodes[n].kind = "boolean"
                           THEN [NoData EXCEPT !.b = s.nodes[n].data.b]
                           ELSE NoData])

\* The callback of the top builder returns: wait resolves to the data the
\* node has now (src/src/index.ts:124  .then(() => result.data)).
Complete(s) ==
  LET n == Top(s).node
  IN  PopFrame([s EXCEPT !.nodes[n].wait = "resolved",
                         !.nodes[n].value = s.nodes[n].data])

\* A failure that rolls the node back: its snapshot is reset as its wait
\* rejects.
Throw_rollback(s, err) ==
  LET f == Top(s)
      rest == PopFrame(s)
  IN  IF f.node # 0
      THEN [rest EXCEPT !.nodes[f.node].wait = "rejected",
                        !.nodes[f.node].err = err,
                        !.nodes[f.node].data = NoData]
      ELSE IF rest.stack = <<>>
           THEN [rest EXCEPT !.stream = [state |-> "rejected", node |-> 0, err |-> err]]
           ELSE [rest EXCEPT !.signal = err]

\* The top async function throws err.  A builder's wait rejects; the
\* promise of a parseValue() rejects, which is #stream for the root call
\* and is otherwise awaited by the calling container.
Throw(s, err) ==
  LET f == Top(s)
      rest == PopFrame(s)
  IN  IF f.node # 0
      THEN [rest EXCEPT !.nodes[f.node].wait = "rejected",
                        !.nodes[f.node].err = err]
      ELSE IF rest.stack = <<>>
           THEN [rest EXCEPT !.stream = [state |-> "rejected", node |-> 0, err |-> err]]
           ELSE [rest EXCEPT !.signal = err]

\* #expectNext without the comparison of assertEq.
expectNext_unchecked(s, expected, pc) ==
  LET len == Len(expected)
  IN  IF ~Avail(s, len) THEN Throw(next(s, len), UnexpectedEndOfInput)
      ELSE IF pc = "done" THEN Complete(next(s, len))
      ELSE SetPc(next(s, len), pc)

\* src/src/index.ts:85-89  #expectNext(expected) followed by the frame
\* moving to pc, or by completion of the node when pc = "done".
expectNext(s, expected, pc) ==
  LET len == Len(expected)
  IN  IF ~Avail(s, len) THEN Throw(next(s, len), UnexpectedEndOfInput)
      ELSE IF peek(s, len) # expected THEN Throw(next(s, len), UnexpectedToken)
      ELSE IF pc = "done" THEN Complete(next(s, len))
      ELSE SetPc(next(s, len), pc)

\* -------------------------------------------------------------- builders
\* Each builder operator is one step of the async function on top of the
\* stack: it is applied when the characters the step reads are buffered, or
\* when the source has ended (then #peek returns undefined and ~Avail).

StartPc(kind) ==
  CASE kind = "object" -> "open" [] kind = "array" -> "open"
    [] kind = "string" -> "open" [] kind = "number" -> "sign"
    [] kind = "boolean" -> "literal" [] kind = "null" -> "literal"

BuilderOf(kind) ==
  CASE kind = "object" -> "parseObject" [] kind = "array" -> "parseArray"
    [] kind = "string" -> "parseString" [] kind = "number" -> "parseNumber"
    [] kind = "boolean" -> "parseBoolean" [] kind = "null" -> "parseNull"

\* A switch without the case '-'.
KindOf_unsigned(c) ==
  CASE c = "{" -> "object"
    [] c = "[" -> "array"
    [] c = "\"" -> "string"
    [] c \in {"t", "f"} -> "boolean"
    [] c = "n" -> "null"
    [] c \in Digits -> "number"
    [] OTHER -> "none"

\* src/src/index.ts:133-161  the switch of parseValue
KindOf(c) ==
  CASE c = "{" -> "object"
    [] c = "[" -> "array"
    [] c = "\"" -> "string"
    [] c \in {"t", "f"} -> "boolean"
    [] c = "n" -> "null"
    [] c = "-" \/ c \in Digits -> "number"
    [] OTHER -> "none"

\* src/src/index.ts:129-162  parseValue(skip): skip whitespace, peek one
\* character and start the builder it selects; the node made by the
\* builder is the value of the promise parseValue returns.
parseValue(s) ==
  LET f == Top(s)
  IN  IF ~Avail(s, 1) THEN Throw(s, UnexpectedEndOfInput)
      ELSE LET c == peek(s, 1)[1]
           IN  IF f.flag /\ isWhitespace(c) THEN next(s, 1)
               ELSE IF KindOf(c) = "none" THEN Throw(s, UnexpectedToken)
               ELSE
                 LET kind   == KindOf(c)
                     id     == Len(s.nodes) + 1
                     caller == Len(s.stack) - 1
                     parent == IF caller = 0 THEN 0 ELSE s.stack[caller].node
                     init   == IF kind = "boolean"
                               THEN [NoData EXCEPT !.b = (c = "t")] ELSE NoData
                     s1     == wrapResult(s, kind, init, parent)
                     s2     == PushFrame(PopFrame(s1),
                                 Frame(BuilderOf(kind), StartPc(kind), id, c = "t"))
                 IN  IF caller = 0
                     THEN [s2 EXCEPT !.stream =
                             [state |-> "fulfilled", node |-> id, err |-> "none"]]
                     ELSE [s2 EXCEPT !.stack[caller].pc = "attach",
                                     !.stack[caller].val = id]

\* An await that swallows the rejection of the awaited node.
awaitNode_swallow(s, n, pc) == SetPc(s, pc)

\* src/src/index.ts:173, 181, 204  await key.wait / await val.wait: the
\* rejection of the awaited node is re-thrown, otherwise the frame goes on
\* at pc.
awaitNode(s, n, pc) ==
  IF s.nodes[n].wait = "rejected" THEN Throw(s, s.nodes[n].err)
  ELSE SetPc(s, pc)

\* src/src/index.ts:178, 201  await this.parseValue() when the call threw
rethrow(s) == Throw([s EXCEPT !.signal = "none"], s.signal)

\* The start of an object member taking '}' for the end of the object only
\* while the object has no member: a '}' after a comma is an error.
objectMember_strictComma(s) ==
  LET f == Top(s)
  IN  IF ~Avail(s, 1) THEN Throw(s, UnexpectedEndOfInput)
      ELSE IF isWhitespace(peek(s, 1)[1]) THEN next(s, 1)
      ELSE IF peek(s, 1) = <<"}">> /\ s.nodes[f.node].data.keys = <<>>
      THEN expectNext(s, <<"}">>, "done")
      ELSE IF peek(s, 1) = <<"}">> THEN Throw(s, UnexpectedToken)
      ELSE LET id == Len(s.nodes) + 1
               s1 == wrapResult(s, "key", NoData, f.node)
           IN  PushFrame([s1 EXCEPT !.stack[Len(s.stack)].pc = "awaitKey",
                                    !.stack[Len(s.stack)].key = id],
                         Frame("parseKey", "start", id, FALSE))

\* src/src/index.ts:169-172  skip whitespace; '}' ends the object;
\* otherwise parseKey() starts
objectMember(s) ==
  LET f == Top(s)
  IN  IF ~Avail(s, 1) THEN Throw(s, UnexpectedEndOfInput)
      ELSE IF isWhitespace(peek(s, 1)[1]) THEN next(s, 1)
      ELSE IF peek(s, 1) = <<"}">> THEN expectNext(s, <<"}">>, "done")
      ELSE LET id == Len(s.nodes) + 1
               s1 == wrapResult(s, "key", NoData, f.node)
           IN  PushFrame([s1 EXCEPT !.stack[Len(s.stack)].pc = "awaitKey",
                                    !.stack[Len(s.stack)].key = id],
                         Frame("parseKey", "start", id, FALSE))

\* src/src/index.ts:175-178  skip whitespace, expect ':', call parseValue()
objectColon(s) ==
  IF ~Avail(s, 1) THEN Throw(s, UnexpectedEndOfInput)
  ELSE IF isWhitespace(peek(s, 1)[1]) THEN next(s, 1)
  ELSE IF peek(s, 1) # <<":">> THEN expectNext(s, <<":">>, "callValue")
  ELSE PushFrame(expectNext(s, <<":">>, "callValue"),
                 Frame("parseValue", "skip", 0, TRUE))

\* src/src/index.ts:179  update(data => void (data[key.data] = val), true)
attachMember(s) ==
  LET a == ActiveIdx(s)
      f == s.stack[a]
  IN  [updateDeep(s, f.node,
         ObjSet(s.nodes[f.node].data, s.nodes[f.key].data.s, f.val))
       EXCEPT !.stack[a].pc = "awaitVal"]

\* src/src/index.ts:183-186, 206-209  skip whitespace; the closing bracket
\* ends the container; otherwise expect ','
separator(s, close) ==
  IF ~Avail(s, 1) THEN Throw(s, UnexpectedEndOfInput)
  ELSE IF isWhitespace(peek(s, 1)[1]) THEN next(s, 1)
  ELSE IF peek(s, 1) = <<close>> THEN expectNext(s, <<close>>, "done")
  ELSE expectNext(s, <<",">>, "member")

\* The object builder with the attachment moved after await val.wait.
parseObject_lateAttach(s) ==
  LET f == Active(s)
  IN  CASE f.pc = "open" -> expectNext(s, <<"{">>, "member")
        [] f.pc = "member" -> objectMember(s)
        [] f.pc = "awaitKey" -> awaitNode(s, f.key, "colon")
        [] f.pc = "colon" -> objectColon(s)
        [] f.pc = "callValue" -> rethrow(s)
        [] f.pc = "attach" -> [s EXCEPT !.stack[ActiveIdx(s)].pc = "awaitVal"]
        [] f.pc = "awaitVal" -> awaitNode(attachMember(s), f.val, "comma")
        [] f.pc = "comma" -> separator(s, "}")

\* src/src/index.ts:164-191  parseObject
parseObject(s) ==
  LET f == Active(s)
  IN  CASE f.pc = "open" -> expectNext(s, <<"{">>, "member")
        [] f.pc = "member" -> objectMember(s)
        [] f.pc = "awaitKey" -> awaitNode(s, f.key, "colon")
        [] f.pc = "colon" -> objectColon(s)
        [] f.pc = "callValue" -> rethrow(s)
        [] f.pc = "attach" -> attachMember(s)
        [] f.pc = "awaitVal" -> awaitNode(s, f.val, "comma")
        [] f.pc = "comma" -> separator(s, "}")

\* The start of an array member without the test for ']'.
arrayMember_noEmptyCheck(s) ==
  IF ~Avail(s, 1) THEN Throw(s, UnexpectedEndOfInput)
  ELSE IF isWhitespace(peek(s, 1)[1]) THEN next(s, 1)
  ELSE PushFrame(SetPc(s, "callValue"), Frame("parseValue", "skip", 0, FALSE))

\* src/src/index.ts:198-201  skip whitespace; ']' ends the array; otherwise
\* call parseValue(false)
arrayMember(s) ==
  IF ~Avail(s, 1) THEN Throw(s, UnexpectedEndOfInput)
  ELSE IF isWhitespace(peek(s, 1)[1]) THEN next(s, 1)
  ELSE IF peek(s, 1) = <<"]">> THEN expectNext(s, <<"]">>, "done")
  ELSE PushFrame(SetPc(s, "callValue"), Frame("parseValue", "skip", 0, FALSE))

\* The push of an element that is not followed by await val.wait: the
\* array goes on to the separator while the element's builder runs.
pushElement_noAwait(s) ==
  LET a == ActiveIdx(s)
      f == s.stack[a]
  IN  [updateDeep(s, f.node,
         [s.nodes[f.node].data EXCEPT
            !.items = Append(s.nodes[f.node].data.items, f.val)])
       EXCEPT !.stack[a].pc = "comma"]

\* src/src/index.ts:202  update(data => void data.push(val), true)
pushElement(s) ==
  LET a == ActiveIdx(s)
      f == s.stack[a]
  IN  [updateDeep(s, f.node,
         [s.nodes[f.node].data EXCEPT
            !.items = Append(s.nodes[f.node].data.items, f.val)])
       EXCEPT !.stack[a].pc = "awaitVal"]

\* The array builder with the push moved after await val.wait.
parseArray_lateAttach(s) ==
  LET f == Active(s)
  IN  CASE f.pc = "open" -> expectNext(s, <<"[">>, "member")
        [] f.pc = "member" -> arrayMember(s)
        [] f.pc = "callValue" -> rethrow(s)
        [] f.pc = "attach" -> [s EXCEPT !.stack[ActiveIdx(s)].pc = "awaitVal"]
        [] f.pc = "awaitVal" -> awaitNode(pushElement(s), f.val, "comma")
        [] f.pc = "comma" -> separator(s, "]")

\* src/src/index.ts:193-214  parseArray
parseArray(s) ==
  LET f == Active(s)
  IN  CASE f.pc = "open" -> expectNext(s, <<"[">>, "member")
        [] f.pc = "member" -> arrayMember(s)
        [] f.pc = "callValue" -> rethrow(s)
        [] f.pc = "attach" -> pushElement(s)
        [] f.pc = "awaitVal" -> awaitNode(s, f.val, "comma")
        [] f.pc = "comma" -> separator(s, "]")

\* The number builder reading its characters with #next: the character that
\* ends the number is consumed with it.
parseNumber_consumesTerminator(s) ==
  LET f == Top(s)
  IN  IF ~Avail(s, 1) THEN Throw(s, UnexpectedEndOfInput)
      ELSE LET c == peek(s, 1)[1]
           IN  IF f.pc = "sign" /\ c = "-"
               THEN [next(s, 1) EXCEPT !.stack[Len(s.stack)].pc = "digits",
                                       !.stack[Len(s.stack)].str = <<"-">>]
               ELSE IF c \in numbers \/ c = "."
               THEN LET str == Append(f.str, c)
                        s1  == [next(s, 1) EXCEPT
                                  !.stack[Len(s.stack)].pc = "digits",
                                  !.stack[Len(s.stack)].str = str]
                    IN  update(s1, f.node, [NoData EXCEPT !.n = Number(str)])
               ELSE Complete(next(s, 1))

\* The number builder taking the end of the source for a terminator.
parseNumber_eofEnds(s) ==
  LET f == Top(s)
  IN  IF ~Avail(s, 1) THEN Complete(s)
      ELSE LET c == peek(s, 1)[1]
           IN  IF f.pc = "sign" /\ c = "-"
               THEN [next(s, 1) EXCEPT !.stack[Len(s.stack)].pc = "digits",
                                       !.stack[Len(s.stack)].str = <<"-">>]
               ELSE IF c \in numbers \/ c = "."
               THEN LET str == Append(f.str, c)
                        s1  == [next(s, 1) EXCEPT
                                  !.stack[Len(s.stack)].pc = "digits",
                                  !.stack[Len(s.stack)].str = str]
                    IN  update(s1, f.node, [NoData EXCEPT !.n = Number(str)])
               ELSE Complete(s)

\* The number builder completing at the end of the source once it has read
\* a digit.
parseNumber_eofAfterDigitEnds(s) ==
  LET f == Top(s)
  IN  IF ~Avail(s, 1)
      THEN IF f.str # <<>> /\ f.str[Len(f.str)] \in numbers
           THEN Complete(s) ELSE Throw(s, UnexpectedEndOfInput)
      ELSE LET c == peek(s, 1)[1]
           IN  IF f.pc = "sign" /\ c = "-"
               THEN [next(s, 1) EXCEPT !.stack[Len(s.stack)].pc = "digits",
                                       !.stack[Len(s.stack)].str = <<"-">>]
               ELSE IF c \in numbers \/ c = "."
               THEN LET str == Append(f.str, c)
                        s1  == [next(s, 1) EXCEPT
                                  !.stack[Len(s.stack)].pc = "digits",
                                  !.stack[Len(s.stack)].str = str]
                    IN  update(s1, f.node, [NoData EXCEPT !.n = Number(str)])
               ELSE Complete(s)

\* src/src/index.ts:218-238  parseNumber
parseNumber(s) ==
  LET f == Top(s)
  IN  IF ~Avail(s, 1) THEN Throw(s, UnexpectedEndOfInput)
      ELSE LET c == peek(s, 1)[1]
           IN  IF f.pc = "sign" /\ c = "-"
               THEN [next(s, 1) EXCEPT !.stack[Len(s.stack)].pc = "digits",
                                       !.stack[Len(s.stack)].str = <<"-">>]
               ELSE IF c \in numbers \/ c = "."
               THEN LET str == Append(f.str, c)
                        s1  == [next(s, 1) EXCEPT
                                  !.stack[Len(s.stack)].pc = "digits",
                                  !.stack[Len(s.stack)].str = str]
                    IN  update(s1, f.node, [NoData EXCEPT !.n = Number(str)])
               ELSE Complete(s)

\* The key builder with the failure of its string or identifier swallowed.
parseKey_swallow(s) ==
  LET f == Top(s)
  IN  CASE f.pc = "start" ->
             IF ~Avail(s, 1) THEN Throw(s, UnexpectedEndOfInput)
             ELSE LET id     == Len(s.nodes) + 1
                      quoted == peek(s, 1) = <<"\"">>
                      s1     == wrapResult(s, IF quoted THEN "string" ELSE "identifier",
                                           NoData, f.node)
                      s2     == [s1 EXCEPT !.stack[Len(s.stack)].pc = "awaitKey",
                                           !.stack[Len(s.stack)].key = id]
                  IN  PushFrame(s2,
                        IF quoted THEN Frame("parseString", "open", id, FALSE)
                        ELSE Frame("parseIdentifier", "loop", id, FALSE))
        [] f.pc = "awaitKey" ->
             Complete(update(s, f.node, s.nodes[f.key].data))

\* src/src/index.ts:240-248  parseKey
parseKey(s) ==
  LET f == Top(s)
  IN  CASE f.pc = "start" ->
             IF ~Avail(s, 1) THEN Throw(s, UnexpectedEndOfInput)
             ELSE LET id     == Len(s.nodes) + 1
                      quoted == peek(s, 1) = <<"\"">>
                      s1     == wrapResult(s, IF quoted THEN "string" ELSE "identifier",
                                           NoData, f.node)
                      s2     == [s1 EXCEPT !.stack[Len(s.stack)].pc = "awaitKey",
                                           !.stack[Len(s.stack)].key = id]
                  IN  PushFrame(s2,
                        IF quoted THEN Frame("parseString", "open", id, FALSE)
                        ELSE Frame("parseIdentifier", "loop", id, FALSE))
        [] f.pc = "awaitKey" ->
             IF s.nodes[f.key].wait = "rejected"
             THEN Throw(s, s.nodes[f.key].err)
             ELSE Complete(update(s, f.node, s.nodes[f.key].data))

\* src/src/index.ts:252-263  parseIdentifier
parseIdentifier(s) ==
  LET f == Top(s)
  IN  IF ~Avail(s, 1) THEN Throw(s, UnexpectedEndOfInput)
      ELSE LET c == peek(s, 1)[1]
           IN  IF c \in letters
               THEN update(next(s, 1), f.node,
                      [NoData EXCEPT !.s = Append(s.nodes[f.node].data.s, c)])
               ELSE Complete(s)

\* src/src/index.ts:279-288  escapeSequences; "\b" is the code unit 8
IsEscape(c) == c \in {"\"", "\\", "/", "b", "f", "n", "r", "t"}

escapeSequences(c) ==
  CASE c = "\"" -> "\"" [] c = "\\" -> "\\" [] c = "/" -> "/"
    [] c = "b" -> fromCharCode(8) [] c = "f" -> "\f" [] c = "n" -> "\n"
    [] c = "r" -> "\r" [] c = "t" -> "\t"

\* The string builder that falls through to the throw after a \u or \U
\* escape.
parseString_throwAfterUnicode(s) ==
  LET f   == Top(s)
      str == s.nodes[f.node].data.s
      add(t, c) == update(t, f.node, [NoData EXCEPT !.s = Append(str, c)])
  IN  CASE f.pc = "open" -> expectNext(s, <<"\"">>, "body")
        [] f.pc = "body" ->
             IF ~Avail(s, 1) THEN Throw(s, UnexpectedEndOfInput)
             ELSE LET c == peek(s, 1)[1]
                  IN  IF c = "\"" THEN expectNext(s, <<"\"">>, "done")
                      ELSE IF c = "\\" THEN SetPc(next(s, 1), "escape")
                      ELSE add(next(s, 1), c)
        [] f.pc = "escape" ->
             IF ~Avail(s, 1) THEN Throw(next(s, 1), UnexpectedEndOfInput)
             ELSE LET nextChar == peek(s, 1)[1]
                  IN  IF IsEscape(nextChar)
                      THEN add(SetPc(next(s, 1), "body"), escapeSequences(nextChar))
                      ELSE IF nextChar = "u" THEN SetPc(next(s, 1), "hex4")
                      ELSE IF nextChar = "U" THEN SetPc(next(s, 1), "hex8")
                      ELSE Throw(next(s, 1), InvalidEscapeSequence)
        [] f.pc = "hex4" ->
             IF ~Avail(s, 4) THEN Throw(next(s, 4), UnexpectedEndOfInput)
             ELSE Throw(add(next(s, 4), parseIntHexChar(peek(s, 4))),
                        InvalidEscapeSequence)
        [] f.pc = "hex8" ->
             IF ~Avail(s, 8) THEN Throw(next(s, 8), UnexpectedEndOfInput)
             ELSE Throw(add(next(s, 8), parseIntHexChar(peek(s, 8))),
                        InvalidEscapeSequence)

\* The string builder that appends the closing quote like any character
\* before it ends.
parseString_keepsQuote(s) ==
  LET f   == Top(s)
      str == s.nodes[f.node].data.s
      add(t, c) == update(t, f.node, [NoData EXCEPT !.s = Append(str, c)])
  IN  CASE f.pc = "open" -> expectNext(s, <<"\"">>, "body")
        [] f.pc = "body" ->
             IF ~Avail(s, 1) THEN Throw(s, UnexpectedEndOfInput)
             ELSE LET c == peek(s, 1)[1]
                  IN  IF c = "\"" THEN Complete(add(next(s, 1), c))
                      ELSE IF c = "\\" THEN SetPc(next(s, 1), "escape")
                      ELSE add(next(s, 1), c)
        [] f.pc = "escape" ->
             IF ~Avail(s, 1) THEN Throw(next(s, 1), UnexpectedEndOfInput)
             ELSE LET nextChar == peek(s, 1)[1]
                  IN  IF IsEscape(nextChar)
                      THEN add(SetPc(next(s, 1), "body"), escapeSequences(nextChar))
                      ELSE IF nextChar = "u" THEN SetPc(next(s, 1), "hex4")
                      ELSE IF nextChar = "U" THEN SetPc(next(s, 1), "hex8")
                      ELSE Throw(next(s, 1), InvalidEscapeSequence)
        [] f.pc = "hex4" ->
             IF ~Avail(s, 4) THEN Throw(next(s, 4), UnexpectedEndOfInput)
             ELSE add(SetPc(next(s, 4), "body"), parseIntHexChar(peek(s, 4)))
        [] f.pc = "hex8" ->
             IF ~Avail(s, 8) THEN Throw(next(s, 8), UnexpectedEndOfInput)
             ELSE add(SetPc(next(s, 8), "body"), parseIntHexChar(peek(s, 8)))

\* src/src/index.ts:265-305  parseString
parseString(s) ==
  LET f   == Top(s)
      str == s.nodes[f.node].data.s
      add(t, c) == update(t, f.node, [NoData EXCEPT !.s = Append(str, c)])
  IN  CASE f.pc = "open" -> expectNext(s, <<"\"">>, "body")
        [] f.pc = "body" ->
             IF ~Avail(s, 1) THEN Throw(s, UnexpectedEndOfInput)
             ELSE LET c == peek(s, 1)[1]
                  IN  IF c = "\"" THEN expectNext(s, <<"\"">>, "done")
                      ELSE IF c = "\\" THEN SetPc(next(s, 1), "escape")
                      ELSE add(next(s, 1), c)
        [] f.pc = "escape" ->
             IF ~Avail(s, 1) THEN Throw(next(s, 1), UnexpectedEndOfInput)
             ELSE LET nextChar == peek(s, 1)[1]
                  IN  IF IsEscape(nextChar)
                      THEN add(SetPc(next(s, 1), "body"), escapeSequences(nextChar))
                      ELSE IF nextChar = "u" THEN SetPc(next(s, 1), "hex4")
                      ELSE IF nextChar = "U" THEN SetPc(next(s, 1), "hex8")
                      ELSE Throw(next(s, 1), InvalidEscapeSequence)
        [] f.pc = "hex4" ->
             IF ~Avail(s, 4) THEN Throw(next(s, 4), UnexpectedEndOfInput)
             ELSE add(SetPc(next(s, 4), "body"), parseIntHexChar(peek(s, 4)))
        [] f.pc = "hex8" ->
             IF ~Avail(s, 8) THEN Throw(next(s, 8), UnexpectedEndOfInput)
             ELSE add(SetPc(next(s, 8), "body"), parseIntHexChar(peek(s, 8)))

\* src/src/index.ts:307-311  parseBoolean(expected)
parseBoolean(s) ==
  IF Top(s).flag THEN expectNext(s, <<"t", "r", "u", "e">>, "done")
  ELSE expectNext(s, <<"f", "a", "l", "s", "e">>, "done")

\* src/src/index.ts:313-315  parseNull
parseNull(s) == expectNext(s, <<"n", "u", "l", "l">>, "done")

\* Number of characters the next cursor read of frame f asks #peek for (0
\* when the frame's next step reads nothing).
Need(f) ==
  IF f.pc \in {"awaitKey", "awaitVal", "callValue", "attach"} THEN 0
  ELSE IF f.fn = "parseBoolean" THEN (IF f.flag THEN 4 ELSE 5)
  ELSE IF f.fn = "parseNull" THEN 4
  ELSE IF f.fn = "parseString" /\ f.pc = "hex4" THEN 4
  ELSE IF f.fn = "parseString" /\ f.pc = "hex8" THEN 8
  ELSE 1

\* The active frame can take its step: what it awaits is settled.  eof
\* tells that the source has ended and holds nothing more.
Ready(s, eof) ==
  /\ s.stack # <<>>
  /\ LET f == Active(s)
     IN  CASE f.pc = "attach" -> TRUE
           [] f.pc = "awaitKey" -> s.nodes[f.key].wait # "pending"
           [] f.pc = "awaitVal" -> s.nodes[f.val].wait # "pending"
           [] f.pc = "callValue" -> s.signal # "none"
           [] OTHER -> Avail(s, Need(f)) \/ eof

\* The step of the active frame.
Step(s) ==
  LET fn == Active(s).fn
  IN  CASE fn = "parseValue" -> parseValue(s)
        [] fn = "parseObject" -> parseObject(s)
        [] fn = "parseArray" -> parseArray(s)
        [] fn = "parseNumber" -> parseNumber(s)
        [] fn = "parseKey" -> parseKey(s)
        [] fn = "parseIdentifier" -> parseIdentifier(s)
        [] fn = "parseString" -> parseString(s)
        [] fn = "parseBoolean" -> parseBoolean(s)
        [] fn = "parseNull" -> parseNull(s)

RECURSIVE RunAll(_, _, _)
\* The parser run on the text d pushed as a whole (and, when end, followed
\* by queue.end()), up to the point where it stops or blocks.
RunAll(s, d, end) ==
  IF s.stack = <<>> THEN s
  ELSE IF Ready(s, end /\ Len(s.text) = Len(d)) THEN RunAll(Step(s), d, end)
  ELSE IF Need(Active(s)) > 0 /\ Len(s.text) < Len(d)
       THEN RunAll([s EXCEPT !.text = Append(s.text, d[Len(s.text) + 1])], d, end)
       ELSE s

\* ------------------------------------------------------------- documents
\* The texts a run pushes into the source.  Valid documents:
\* {"title":"hi"}
DocTitle == <<"{", "\"", "t", "i", "t", "l", "e", "\"", ":", "\"", "h", "i", "\"", "}">>
\* [1,2]
DocPair == <<"[", "1", ",", "2", "]">>
\* {"b":1,"a":2}
DocOrder == <<"{", "\"", "b", "\"", ":", "1", ",", "\"", "a", "\"", ":", "2", "}">>
\* [-12.5]
DocNumber == <<"[", "-", "1", "2", ".", "5", "]">>
\* "\n\t\u00e9"
DocEscape == <<"\"", "\\", "n", "\\", "t", "\\", "u", "0", "0", "e", "9", "\"">>
\* [[],{}]
DocNested == <<"[", "[", "]", ",", "{", "}", "]">>
\* {k:true}
DocLenient == <<"{", "k", ":", "t", "r", "u", "e", "}">>
\* [null ,false]
DocLiterals == <<"[", "n", "u", "l", "l", " ", ",", "f", "a", "l", "s", "e", "]">>
\* 7 
DocRootNumber == <<"7", " ">>
\* [[1]]
DocDeep == <<"[", "[", "1", "]", "]">>

\* {b:1,1:2}
DocIndexKey == <<"{", "b", ":", "1", ",", "1", ":", "2", "}">>
\* {a:1,b:2,a:3}
DocDupKey == <<"{", "a", ":", "1", ",", "b", ":", "2", ",", "a", ":", "3", "}">>

\* {"a":1}
DocMember == <<"{", "\"", "a", "\"", ":", "1", "}">>

\* {}, [], { } and [ ]
DocEmptyObject == <<"{", "}">>
DocEmptyArray == <<"[", "]">>
DocEmptyObjectWs == <<"{", " ", "}">>
DocEmptyArrayWs == <<"[", " ", "]">>

EmptyDocs == {DocEmptyObject, DocEmptyArray, DocEmptyObjectWs, DocEmptyArrayWs}

\* "\"\\\/\b"
DocEscapesQuote == <<"\"", "\\", "\"", "\\", "\\", "\\", "/", "\\", "b", "\"">>
\* "\f\n\r\t"
DocEscapesControl == <<"\"", "\\", "f", "\\", "n", "\\", "r", "\\", "t", "\"">>
\* "\u004A"
DocUnicode == <<"\"", "\\", "u", "0", "0", "4", "A", "\"">>

EscapeDocs == {DocEscape, DocEscapesQuote, DocEscapesControl, DocUnicode}

ValidDocs ==
  {DocTitle, DocPair, DocOrder, DocNumber, DocEscape, DocNested, DocLenient, DocLiterals, DocRootNumber,
   DocDeep, DocIndexKey, DocDupKey, DocMember} \cup EmptyDocs \cup EscapeDocs

\* Documents with a malformed literal, a trailing separator, text after
\* the root value, a bad escape, a long escape:
\* {"a":tru}
DocTru == <<"{", "\"", "a", "\"", ":", "t", "r", "u", "}">>
\* [nul]
DocNul == <<"[", "n", "u", "l", "]">>
\*  fals,
DocFals == <<" ", "f", "a", "l", "s", ",">>
\* [1,]
DocTrailing == <<"[", "1", ",", "]">>
\* {}x
DocAfter == <<"{", "}", "x">>
\* ["\q]
DocBadEscape == <<"[", "\"", "\\", "q", "]">>
\* "\U0001F600"
DocLongEscape == <<"\"", "\\", "U", "0", "0", "0", "1", "F", "6", "0", "0", "\"">>

\* -.5.1 followed by a space
DocDots == <<"-", ".", "5", ".", "1", " ">>

\* Objects of one member, with the key bare and with the key quoted.
LenientKeys == {<<"_">>, <<"7">>, <<"B", "2">>}
MemberValues == {<<"-", "1">>, <<"\"", "x", "\"">>}

LenientDoc(k, v) == <<"{">> \o k \o <<":">> \o v \o <<"}">>
QuotedDoc(k, v) == <<"{", "\"">> \o k \o <<"\"", ":">> \o v \o <<"}">>

LenientDocs == {LenientDoc(k, v) : k \in LenientKeys, v \in MemberValues}
QuotedDocs == {QuotedDoc(k, v) : k \in LenientKeys, v \in MemberValues}

\* [" a"]
DocInnerSpace == <<"[", "\"", " ", "a", "\"", "]">>
\* Documents with whitespace before the root value and between the tokens
\* of a container: [1,2], {"a":1}, [" a"] and [, so spaced
DocPairSpaced == <<"\n", "[", "\t", "1", " ", ",", "\r", "2", " ", "]">>
DocMemberSpaced ==
  <<" ", "{", "\n", "\"", "a", "\"", "\t", ":", "\r", "1", " ", "}">>
DocInnerSpaceSpaced == <<"[", "\t", "\"", " ", "a", "\"", "\n", "]">>
DocCommaSpaced == <<"\r", "[", " ", ",">>

SpacedDocs == {DocPairSpaced, DocMemberSpaced, DocInnerSpaceSpaced, DocCommaSpaced}

BadLiteralDocs == {DocTru, DocNul, DocFals}

\* {"a":1,}
DocTrailingMember == <<"{", "\"", "a", "\"", ":", "1", ",", "}">>

OtherDocs ==
  {DocTrailing, DocTrailingMember, DocAfter, DocBadEscape, DocLongEscape, DocDots}

\* Every text of at most MaxGen characters over GenAlphabet.
GenAlphabet == {"[", "]", "{", "}", ",", ":", "1"}

GenDocs == UNION {[1..n -> GenAlphabet] : n \in 0..MaxGen}

Docs ==
  ValidDocs \cup BadLiteralDocs \cup OtherDocs \cup GenDocs
    \cup LenientDocs \cup QuotedDocs \cup SpacedDocs \cup {DocInnerSpace}

\* --------------------------------------------------------------- resolve
\* A plain value: t is "array", "object", "null", "number", "string" or
\* "boolean"; items are plain values.
Plain(t, data, items) ==
  [t |-> t, s |-> data.s, n |-> data.n, b |-> data.b,
   items |-> items, keys |-> data.keys]

RECURSIVE CopyKeys(_, _, _)
\* src/src/index.ts:331-334  result = {}; for (key in data) result[key] = ...:
\* the keys of data, taken in its enumeration order from the i-th on, are
\* set on the record acc; the item of a key is its position in data.
CopyKeys(data, i, acc) ==
  IF i > Len(data.keys) THEN acc
  ELSE CopyKeys(data, i + 1, ObjSet(acc, data.keys[i], i))

RECURSIVE resolveNode(_, _)
\* src/src/index.ts:321-340  #resolve: a synchronous walk over the data of
\* the nodes as they are now; no wait is awaited.
resolveNode(ns, n) ==
  LET node == ns[n]
      d    == node.data
  IN  IF node.kind = "array"
      THEN Plain("array", d, [i \in 1..Len(d.items) |-> resolveNode(ns, d.items[i])])
      ELSE IF node.kind = "object"
      THEN LET r == CopyKeys(d, 1, NoData)
           IN  Plain("object", [d EXCEPT !.keys = r.keys],
                     [i \in 1..Len(r.items) |-> resolveNode(ns, d.items[r.items[i]])])
      ELSE Plain(node.kind, d, <<>>)

NoValue == Plain("none", NoData, <<>>)

\* ------------------------------------------------------------------ state
VARIABLES
  doc,      \* the text the producer pushes, character by character
  pushed,   \* number of characters of doc pushed into the queue so far
  ended,    \* queue.end() has been called
  text,     \* #text: the characters dequeued so far
  index,    \* #index
  nodes,    \* the nodes created by #wrapResult
  stack,    \* the suspended async functions of the parser
  stream,   \* #stream
  signal,   \* rejection of a parseValue() call, in flight to its caller
  calls,    \* number of resolve() calls made
  waiting,  \* number of resolve() calls awaiting #stream
  result    \* outcome of the resolve() call that returned last

vars == <<doc, pushed, ended, text, index, nodes, stack, stream, signal,
          calls, waiting, result>>

parserVars == <<text, index, nodes, stack, stream, signal>>

\* The parser state as one record, and its assignment.
P ==
  [text |-> text, index |-> index, nodes |-> nodes, stack |-> stack,
   stream |-> stream, signal |-> signal]

Becomes(s) ==
  /\ text' = s.text
  /\ index' = s.index
  /\ nodes' = s.nodes
  /\ stack' = s.stack
  /\ stream' = s.stream
  /\ signal' = s.signal

\* A #peek that does not see Queue.EOF and waits on the ended queue.
AtEof_never == FALSE

\* An empty queue taken for the end of the source.
AtEof_emptyQueue == Len(text) = pushed

\* Queue.EOF: the queue has ended and every pushed character was dequeued.
AtEof == ended /\ Len(text) = pushed

NoResult == [state |-> "none", value |-> NoValue, err |-> "none", rootWait |-> "none"]

Init ==
  /\ doc \in Docs
  /\ pushed = 0
  /\ ended = FALSE
  /\ text = NewParser.text
  /\ index = NewParser.index
  /\ nodes = NewParser.nodes
  /\ stack = NewParser.stack
  /\ stream = NewParser.stream
  /\ signal = NewParser.signal
  /\ calls = 0
  /\ waiting = 0
  /\ result = NoResult

\* ------------------------------------------------------------ the source
\* src/README.md:65  queue.push(...chunk): the next k characters arrive
QueuePush ==
  /\ ~ended
  /\ \E k \in 1..(Len(doc) - pushed) : pushed' = pushed + k
  /\ UNCHANGED <<doc, ended, parserVars, calls, waiting, result>>

\* src/README.md:73  queue.end()
QueueEnd ==
  /\ ~ended
  /\ ended' = TRUE
  /\ UNCHANGED <<doc, pushed, parserVars, calls, waiting, result>>

\* A #peek that reads ahead: it takes a character from the source whenever
\* one is there, needed or not.
Peek_readAhead ==
  /\ Len(text) < pushed
  /\ text' = Append(text, doc[Len(text) + 1])
  /\ UNCHANGED <<doc, pushed, ended, index, nodes, stack, stream, signal,
                 calls, waiting, result>>

\* src/src/index.ts:62-66  one iteration of the loop of #peek: the active
\* frame reads past the buffer and shiftUnsafe() delivers a character.
Peek ==
  /\ stack # <<>>
  /\ Need(Active(P)) > 0
  /\ ~Avail(P, Need(Active(P)))
  /\ Len(text) < pushed
  /\ text' = Append(text, doc[Len(text) + 1])
  /\ UNCHANGED <<doc, pushed, ended, index, nodes, stack, stream, signal,
                 calls, waiting, result>>

\* ------------------------------------------------------------ the parser
\* One action per async function of the parser: the active frame takes its
\* step.
ParseValue ==
  /\ Ready(P, AtEof)
  /\ Active(P).fn = "parseValue"
  /\ Becomes(parseValue(P))
  /\ UNCHANGED <<doc, pushed, ended, calls, waiting, result>>

ParseObject ==
  /\ Ready(P, AtEof)
  /\ Active(P).fn = "parseObject"
  /\ Becomes(parseObject(P))
  /\ UNCHANGED <<doc, pushed, ended, calls, waiting, result>>

ParseArray ==
  /\ Ready(P, AtEof)
  /\ Active(P).fn = "parseArray"
  /\ Becomes(parseArray(P))
  /\ UNCHANGED <<doc, pushed, ended, calls, waiting, result>>

ParseNumber ==
  /\ Ready(P, AtEof)
  /\ Active(P).fn = "parseNumber"
  /\ Becomes(parseNumber(P))
  /\ UNCHANGED <<doc, pushed, ended, calls, waiting, result>>

ParseKey ==
  /\ Ready(P, AtEof)
  /\ Active(P).fn = "parseKey"
  /\ Becomes(parseKey(P))
  /\ UNCHANGED <<doc, pushed, ended, calls, waiting, result>>

ParseIdentifier ==
  /\ Ready(P, AtEof)
  /\ Active(P).fn = "parseIdentifier"
  /\ Becomes(parseIdentifier(P))
  /\ UNCHANGED <<doc, pushed, ended, calls, waiting, result>>

ParseString ==
  /\ Ready(P, AtEof)
  /\ Active(P).fn = "parseString"
  /\ Becomes(parseString(P))
  /\ UNCHANGED <<doc, pushed, ended, calls, waiting, result>>

ParseBoolean ==
  /\ Ready(P, AtEof)
  /\ Active(P).fn = "parseBoolean"
  /\ Becomes(parseBoolean(P))
  /\ UNCHANGED <<doc, pushed, ended, calls, waiting, result>>

ParseNull ==
  /\ Ready(P, AtEof)
  /\ Active(P).fn = "parseNull"
  /\ Becomes(parseNull(P))
  /\ UNCHANGED <<doc, pushed, ended, calls, waiting, result>>

\* ---------------------------------------------------------------- resolve
\* src/src/index.ts:317-319  resolve() is called and awaits #stream
ResolveCall ==
  /\ calls < MaxCalls
  /\ calls' = calls + 1
  /\ waiting' = waiting + 1
  /\ UNCHANGED <<doc, pushed, ended, parserVars, result>>

\* A #resolve that converts the tree in place: the snapshot of the root is
\* emptied as its members are moved into the returned value.
ResolveReturn_inPlace ==
  /\ waiting > 0
  /\ stream.state # "pending"
  /\ waiting' = waiting - 1
  /\ result' =
       IF stream.state = "rejected"
       THEN [state |-> "rejected", value |-> NoValue, err |-> stream.err,
             rootWait |-> "none"]
       ELSE [state |-> "fulfilled", value |-> resolveNode(nodes, stream.node),
             err |-> "none", rootWait |-> nodes[stream.node].wait]
  /\ nodes' = IF stream.state = "rejected" THEN nodes
              ELSE [nodes EXCEPT ![stream.node].data.items = <<>>,
                                 ![stream.node].data.keys = <<>>]
  /\ UNCHANGED <<doc, pushed, ended, text, index, stack, stream, signal, calls>>

\* A resolve() that awaits the completion of the root node before it reads.
ResolveReturn_awaitsCompletion ==
  /\ waiting > 0
  /\ stream.state # "pending"
  /\ stream.state = "fulfilled" => nodes[stream.node].wait # "pending"
  /\ waiting' = waiting - 1
  /\ result' =
       IF stream.state = "rejected"
       THEN [state |-> "rejected", value |-> NoValue, err |-> stream.err,
             rootWait |-> "none"]
       ELSE [state |-> "fulfilled", value |-> resolveNode(nodes, stream.node),
             err |-> "none", rootWait |-> nodes[stream.node].wait]
  /\ UNCHANGED <<doc, pushed, ended, parserVars, calls>>

\* src/src/index.ts:318  #stream has settled: resolve() rejects with its
\* error, or returns #resolve of the root node as it is now.
ResolveReturn ==
  /\ waiting > 0
  /\ stream.state # "pending"
  /\ waiting' = waiting - 1
  /\ result' =
       IF stream.state = "rejected"
       THEN [state |-> "rejected", value |-> NoValue, err |-> stream.err,
             rootWait |-> "none"]
       ELSE [state |-> "fulfilled", value |-> resolveNode(nodes, stream.node),
             err |-> "none", rootWait |-> nodes[stream.node].wait]
  /\ UNCHANGED <<doc, pushed, ended, parserVars, calls>>

Next ==
  \/ QueuePush
  \/ QueueEnd
  \/ Peek
  \/ ParseValue
  \/ ParseObject
  \/ ParseArray
  \/ ParseNumber
  \/ ParseKey
  \/ ParseIdentifier
  \/ ParseString
  \/ ParseBoolean
  \/ ParseNull
  \/ ResolveCall
  \/ ResolveReturn

Spec == Init /\ [][Next]_vars

\* The scheduling of the parser: a suspended async function whose awaited
\* promise has settled is resumed by the microtask queue, and a #peek that
\* waits on a queue holding a character gets it.  Nothing obliges the
\* producer to push or to end, nor a caller to call resolve().
Fairness ==
  /\ WF_vars(Peek)
  /\ WF_vars(ParseValue)
  /\ WF_vars(ParseObject)
  /\ WF_vars(ParseArray)
  /\ WF_vars(ParseNumber)
  /\ WF_vars(ParseKey)
  /\ WF_vars(ParseIdentifier)
  /\ WF_vars(ParseString)
  /\ WF_vars(ParseBoolean)
  /\ WF_vars(ParseNull)

\* The producer and the parser, without callers of resolve() (which read
\* the nodes and change nothing of the parser).
ParserNext ==
  \/ QueuePush
  \/ QueueEnd
  \/ Peek
  \/ ParseValue
  \/ ParseObject
  \/ ParseArray
  \/ ParseNumber
  \/ ParseKey
  \/ ParseIdentifier
  \/ ParseString
  \/ ParseBoolean
  \/ ParseNull

FairSpec == Init /\ [][ParserNext]_vars /\ Fairness

\* ------------------------------------------------------------ properties
NodeIds == 1..Len(nodes)

IsContainer(n) == nodes[n].kind \in {"object", "array"}

\* The children of value kind made for a container (not its keys).
IsMember(n) ==
  /\ nodes[n].parent # 0
  /\ IsContainer(nodes[n].parent)
  /\ nodes[n].kind # "key"

Attached(n) ==
  \E i \in 1..Len(nodes[nodes[n].parent].data.items) :
     nodes[nodes[n].parent].data.items[i] = n

RECURSIVE Inside(_, _)
\* The nodes reachable from the snapshot of node n, at any depth.
Inside(ns, n) ==
  LET kids == {ns[n].data.items[i] : i \in 1..Len(ns[n].data.items)}
  IN  kids \cup UNION {Inside(ns, k) : k \in kids}

RootExists == stream.state = "fulfilled"
Root == stream.node

\* The parser can take no step: it has stopped, or it is blocked on the
\* source.
PeekEnabled ==
  /\ stack # <<>>
  /\ Need(Active(P)) > 0
  /\ ~Avail(P, Need(Active(P)))
  /\ Len(text) < pushed

ParserIdle == ~Ready(P, AtEof) /\ ~PeekEnabled

\* The run of the parser on each document pushed as a whole.
FullRun == [d \in Docs |-> RunAll(NewParser, d, FALSE)]

CompletesWhole(d) ==
  /\ FullRun[d].stream.state = "fulfilled"
  /\ FullRun[d].nodes[FullRun[d].stream.node].wait = "resolved"

FullValue(d) == resolveNode(FullRun[d].nodes, FullRun[d].stream.node)

\* C1 (as stated): resolve() settles only after the completion of the root
\* node (and of every nested node), and the value it returns is the value
\* the document has once parsing has finished.
C1_ResolveAwaitsCompletion ==
  result.state = "fulfilled" =>
    /\ result.rootWait = "resolved"
    /\ nodes[Root].wait = "resolved" => result.value = resolveNode(nodes, Root)

\* C1 (amended): resolve() settles once #stream, the root dispatch, has
\* settled, whatever the state of the completions; the value it returns is
\* the final value of the document when the root's completion had resolved
\* by the time it returned.
C1_ResolveAfterCompletionIsFinal ==
  /\ result.state = "fulfilled" => RootExists
  /\ (result.state = "fulfilled" /\ result.rootWait = "resolved") =>
        /\ nodes[Root].wait = "resolved"
        /\ result.value = resolveNode(nodes, Root)

C1_Witness ==
  /\ result.state = "fulfilled"
  /\ result.rootWait = "resolved"
  /\ result.value.t = "object"
  /\ Len(result.value.items) = 2

\* C2 (as stated): for a valid document, resolve() gives the same value
\* under every interleaving of pushes, parser steps and the resolve() call
\* as when the whole text is pushed at once.
C2_ResolveSameUnderEverySchedule ==
  (doc \in ValidDocs /\ result.state = "fulfilled") =>
     result.value = FullValue(doc)

\* C2 (amended): for a document that completes when pushed whole, every
\* push schedule ends in the same value: once the whole text is pushed and
\* the parser has caught up the root is complete with the value of the
\* whole-text run, and a resolve() that returns after the root's
\* completion returns that value.
C2_FinalValueSameUnderEverySchedule ==
  CompletesWhole(doc) =>
    /\ (pushed = Len(doc) /\ ParserIdle) =>
          /\ RootExists
          /\ nodes[Root].wait = "resolved"
          /\ resolveNode(nodes, Root) = FullValue(doc)
    /\ (result.state = "fulfilled" /\ result.rootWait = "resolved") =>
          result.value = FullValue(doc)

C2_Witness ==
  /\ doc = DocOrder
  /\ pushed = Len(doc)
  /\ ParserIdle
  /\ result.state = "fulfilled"
  /\ result.rootWait = "resolved"

\* C3 (as stated): when a builder fails, its completion and that of every
\* ancestor up to the root rejects and resolve() rejects: resolve() never
\* fulfils with a value for a document whose parse failed.
C3_ResolveRejectsAfterFailure ==
  ~(result.state = "fulfilled" /\ result.rootWait = "rejected")

\* C3 (amended): when a builder fails, its completion rejects and the
\* builder awaiting it re-throws the same error, up to the root; resolve()
\* rejects only when the root dispatch (#stream) rejected, in which case no
\* node exists, and otherwise fulfils with the current snapshots.
C3_FailurePropagatesToRoot ==
  /\ \A n \in NodeIds :
       (nodes[n].wait = "rejected" /\ nodes[n].parent # 0) =>
          LET p == nodes[n].parent
          IN  /\ nodes[p].wait # "resolved"
              /\ nodes[p].wait = "rejected" => nodes[p].err = nodes[n].err
              /\ nodes[p].wait = "pending" =>
                    (stack # <<>> /\ Top(P).node = p /\ Ready(P, AtEof))
  /\ result.state = "rejected" =>
        (stream.state = "rejected" /\ result.err = stream.err /\ nodes = <<>>)
  /\ result.state = "fulfilled" => RootExists

C3_Witness ==
  /\ RootExists
  /\ nodes[Root].wait = "rejected"
  /\ \E n \in NodeIds : nodes[n].parent = Root /\ nodes[n].wait = "rejected"
  /\ result.state = "fulfilled"
  /\ result.rootWait = "rejected"

RECURSIVE HasLiteral(_)
\* A plain value holds a boolean or a null.
HasLiteral(v) ==
  \/ v.t \in {"boolean", "null"}
  \/ \E i \in 1..Len(v.items) : HasLiteral(v.items[i])

\* C4 (as stated): a value starting with t, f or n that is not exactly
\* true, false or null fails the parse, and resolve() never returns a value
\* in which that member is true/false/null.
C4_MalformedLiteralNeverReturned ==
  (doc \in BadLiteralDocs /\ result.state = "fulfilled") =>
     ~HasLiteral(result.value)

\* C4 (amended): such a literal's node never resolves, nor does any
\* container around it: its completion rejects with UnexpectedToken, or
\* with UnexpectedEndOfInput when the source ended before the literal's
\* characters arrived; resolve() (a read of the current snapshots) still
\* returns the member with its initial snapshot true/false/null.
C4_MalformedLiteralRejects ==
  doc \in BadLiteralDocs =>
    /\ \A n \in NodeIds :
         /\ (nodes[n].kind \in {"boolean", "null"} \/ IsContainer(n)) =>
               nodes[n].wait # "resolved"
         /\ (nodes[n].kind \in {"boolean", "null"} /\ nodes[n].wait = "rejected") =>
               /\ nodes[n].err \in {UnexpectedToken, UnexpectedEndOfInput}
               /\ nodes[n].err = UnexpectedEndOfInput => ended
               /\ nodes[n].err = UnexpectedToken => Len(text) >= index
    /\ ((pushed = Len(doc) \/ ended) /\ ParserIdle) =>
          \/ \E n \in NodeIds : nodes[n].kind \in {"boolean", "null"}
                                 /\ nodes[n].wait = "rejected"
          \/ ended /\ \A n \in NodeIds : nodes[n].kind \notin {"boolean", "null"}

C4_Witness ==
  /\ doc = DocTru
  /\ \E n \in NodeIds : /\ nodes[n].kind = "boolean"
                        /\ nodes[n].wait = "rejected"
                        /\ nodes[n].err = UnexpectedToken
  /\ result.state = "fulfilled"
  /\ HasLiteral(result.value)

\* The state of C5: {"title":"hi has been pushed, the source has not ended
\* and the parser is blocked on it.
TitlePushed ==
  /\ doc = DocTitle
  /\ pushed = 12
  /\ ~ended
  /\ ParserIdle

\* C5: after {"title":"hi has been pushed and the parser has caught up, the
\* root snapshot has the key title mapped to a node whose snapshot is "hi"
\* and whose completion is unsettled, and the root's completion is
\* unsettled too.
C5_IncrementalVisibility ==
  TitlePushed =>
    /\ RootExists
    /\ nodes[Root].kind = "object"
    /\ nodes[Root].wait = "pending"
    /\ nodes[Root].data.keys = << <<"t", "i", "t", "l", "e">> >>
    /\ Len(nodes[Root].data.items) = 1
    /\ LET c == nodes[Root].data.items[1]
       IN  /\ nodes[c].kind = "string"
           /\ nodes[c].data.s = <<"h", "i">>
           /\ nodes[c].wait = "pending"

C5_Witness == TitlePushed /\ text = SubSeq(DocTitle, 1, 12)

\* The key under which member n of an object was attached: the text of the
\* key node made last before n by the same builder.
KeyOfMember(n) ==
  LET ks == {k \in NodeIds : /\ k < n
                              /\ nodes[k].kind = "key"
                              /\ nodes[k].parent = nodes[n].parent}
  IN  nodes[CHOOSE k \in ks : \A j \in ks : j <= k].data.s

\* Member n of an object was attached and a later member with the same key
\* has taken its place (data[key] = val with a key already present).
Displaced(n) ==
  /\ nodes[nodes[n].parent].kind = "object"
  /\ \E m \in NodeIds :
        /\ m > n
        /\ IsMember(m)
        /\ nodes[m].parent = nodes[n].parent
        /\ Attached(m)
        /\ KeyOfMember(m) = KeyOfMember(n)

\* C6: no child of an array or object has its completion resolved while it
\* is not yet in its parent's snapshot: a resolved child is in the snapshot,
\* or was in it until a later member with the same key took its place.
C6_AttachedBeforeComplete ==
  \A n \in NodeIds :
     (IsMember(n) /\ nodes[n].wait = "resolved") => (Attached(n) \/ Displaced(n))

C6_Witness ==
  \E n \in NodeIds :
     /\ IsMember(n)
     /\ nodes[n].wait = "resolved"
     /\ Attached(n)
     /\ nodes[nodes[n].parent].wait = "pending"

\* C7: when the completion of an object or array is resolved, the
\* completion of every node in its snapshot, at any depth, is resolved.
C7_ContainerCompletesLast ==
  \A n \in NodeIds :
     (IsContainer(n) /\ nodes[n].wait = "resolved") =>
        \A k \in Inside(nodes, n) : nodes[k].wait = "resolved"

C7_Witness ==
  \E n \in NodeIds :
     /\ IsContainer(n)
     /\ nodes[n].wait = "resolved"
     /\ \E k \in Inside(nodes, n) : Inside(nodes, k) # {}
     /\ \E k \in Inside(nodes, n) : nodes[k].kind = "number"

\* C8: once the completion of a node has resolved or rejected, its snapshot
\* does not change in any later step, and a resolved completion has the
\* value of that final snapshot.
C8_FrozenAfterCompletion ==
  [][/\ \A n \in NodeIds :
          nodes[n].wait # "pending" =>
             /\ nodes'[n].data = nodes[n].data
             /\ nodes'[n].wait = nodes[n].wait
             /\ nodes'[n].value = nodes[n].value
     /\ \A n \in 1..Len(nodes') :
          nodes'[n].wait = "resolved" => nodes'[n].value = nodes'[n].data]_vars

C8_Witness ==
  /\ stack # <<>>
  /\ \E n \in NodeIds : /\ nodes[n].wait = "resolved"
                        /\ nodes[n].kind = "string"
                        /\ nodes[n].value.s = <<"h", "i">>

\* C9 (as stated): right after construction, before any character is
\* pushed, the root node exists, in progress, and parsing has started.
C9_RootExistsAtConstruction ==
  pushed = 0 => (RootExists /\ nodes # <<>>)

\* C9 (amended): right after construction parsing has started (the root
\* parseValue() awaits the first character) but no node exists and #stream
\* is pending; the root node is made when the dispatcher has read the first
\* character that is not whitespace, and is then in progress.
C9_RootExistsFromFirstToken ==
  /\ (pushed = 0 /\ ~ended) =>
        /\ stream.state = "pending"
        /\ nodes = <<>>
        /\ stack = <<Frame("parseValue", "skip", 0, TRUE)>>
  /\ stream.state = "pending" <=> (stack # <<>> /\ Top(P).fn = "parseValue" /\ Len(stack) = 1)
  /\ stream.state # "fulfilled" => nodes = <<>>
  /\ RootExists =>
        /\ Root = 1
        /\ nodes[1].parent = 0
        /\ \E i \in 1..Len(text) : ~isWhitespace(text[i])

C9_Witness ==
  /\ RootExists
  /\ nodes[Root].wait = "pending"
  /\ Len(text) = 2
  /\ isWhitespace(text[1])

\* The settled outcome of the root value: the root node's completion, or
\* #stream when the root dispatch failed.
RootOutcome ==
  IF RootExists THEN [state |-> nodes[Root].wait, err |-> nodes[Root].err]
  ELSE [state |-> stream.state, err |-> stream.err]

\* C10: when the source ends before the root value of a (valid) document is
\* complete, the root's completion rejects with UnexpectedEndOfInput: once
\* the parser has come to rest it is neither resolved nor pending.  For any
\* text, the root is not left pending once the source has ended and the
\* parser has come to rest.
C10_TruncatedInputRejects ==
  /\ (doc \in ValidDocs /\ ended /\ pushed < Len(doc) /\ ParserIdle) =>
        RootOutcome = [state |-> "rejected", err |-> UnexpectedEndOfInput]
  /\ (ended /\ ParserIdle) => (stack = <<>> /\ RootOutcome.state # "pending")

C10_Witness ==
  /\ doc = DocNumber
  /\ ended
  /\ pushed = 5
  /\ ParserIdle
  /\ Len(nodes) = 2
  /\ nodes[2].data.n = Num(TRUE, 12, 0)
  /\ nodes[Root].wait = "rejected"

\* Every async function of the parser has returned or thrown, and every
\* node made has its completion settled.
Settled ==
  /\ stack = <<>>
  /\ stream.state # "pending"
  /\ \A n \in NodeIds : nodes[n].wait # "pending"

\* C11: once the source has ended, every node made has its completion
\* settled eventually and the parser has stopped; a stopped parser takes no
\* further step (its cursor and nodes stay as they are), and it stops
\* exactly when the root value has completed or failed, be it with a grammar
\* error or at the end of the source.
C11_Termination ==
  /\ ended ~> Settled
  /\ [][stack = <<>> => UNCHANGED parserVars]_vars
  /\ [](stack = <<>> <=> RootOutcome.state \in {"resolved", "rejected"})
  /\ [](stack = <<>> => Settled)

C11_Witness ==
  /\ ended
  /\ Settled
  /\ Len(nodes) >= 3
  /\ \E n \in NodeIds : nodes[n].wait = "resolved"
  /\ \E n \in NodeIds : nodes[n].wait = "rejected"

\* The key nodes made by the builder of object n.
KeyNodes(n) == {k \in NodeIds : nodes[k].kind = "key" /\ nodes[k].parent = n}

RECURSIVE InputKeys(_, _)
\* The keys of object n as they appear in the input: the texts of its key
\* nodes from node k on, in creation order.
InputKeys(n, k) ==
  IF k > Len(nodes) THEN <<>>
  ELSE (IF k \in KeyNodes(n) THEN <<nodes[k].data.s>> ELSE <<>>) \o InputKeys(n, k + 1)

RECURSIVE FirstAppearances(_)
\* A sequence without the repetitions of its elements.
FirstAppearances(seq) ==
  IF seq = <<>> THEN <<>>
  ELSE LET r == FirstAppearances(SubSeq(seq, 1, Len(seq) - 1))
           x == seq[Len(seq)]
       IN  IF \E i \in 1..Len(r) : r[i] = x THEN r ELSE Append(r, x)

RECURSIVE SortIndexKeys(_)
SortIndexKeys(S) ==
  IF S = {} THEN <<>>
  ELSE LET m == CHOOSE k \in S : \A j \in S : DecVal(k, 0) <= DecVal(j, 0)
       IN  <<m>> \o SortIndexKeys(S \ {m})

NotIndexKey(k) == ~IsIndexKey(k)

\* The enumeration order of a JavaScript object whose keys were set in the
\* order seq: the array-index keys in ascending numeric order, then the
\* other keys in the order of their first setting.
OwnPropertyOrder(seq) ==
  LET f == FirstAppearances(seq)
  IN  SortIndexKeys({f[i] : i \in {j \in 1..Len(f) : IsIndexKey(f[j])}})
        \o SelectSeq(f, NotIndexKey)

\* resolve() returned an object after the root's completion had resolved.
ResolvedObject ==
  /\ result.state = "fulfilled"
  /\ result.rootWait = "resolved"
  /\ result.value.t = "object"

\* C12 (as stated): the record resolve() returns after completion
\* enumerates its keys in the order in which they (first) appear in the
\* input, for every object document.
C12_KeysInInputOrder ==
  ResolvedObject => result.value.keys = FirstAppearances(InputKeys(Root, 1))

\* C12 (amended): the record enumerates its keys as a JavaScript object
\* does: the keys that are array indices first, in ascending numeric order,
\* then the other keys in the order of their first appearance in the input;
\* so does the snapshot of every completed object.  {"b":1,"a":2} yields b, a.
C12_KeysInOwnPropertyOrder ==
  /\ ResolvedObject => result.value.keys = OwnPropertyOrder(InputKeys(Root, 1))
  /\ \A n \in NodeIds :
       (nodes[n].kind = "object" /\ nodes[n].wait = "resolved") =>
          nodes[n].data.keys = OwnPropertyOrder(InputKeys(n, 1))
  /\ (ResolvedObject /\ doc = DocOrder) => result.value.keys = << <<"b">>, <<"a">> >>

C12_Witness ==
  /\ ResolvedObject
  /\ doc = DocIndexKey
  /\ result.value.keys = << <<"1">>, <<"b">> >>
  /\ result.value.items[1].n = Num(FALSE, 2, 0)

\* The whole text of an empty container has been pushed, the source has not
\* ended, and the parser has caught up.
EmptyPushed ==
  /\ doc \in EmptyDocs
  /\ pushed = Len(doc)
  /\ ~ended
  /\ ParserIdle

\* C13: {} and [] (also { } and [ ]) complete and resolve to the empty
\* record and the empty sequence, without any character after the closing
\* bracket and without the end of the source.
C13_EmptyContainers ==
  /\ EmptyPushed =>
        /\ RootExists
        /\ Len(nodes) = 1
        /\ nodes[Root].kind = (IF doc[1] = "{" THEN "object" ELSE "array")
        /\ nodes[Root].wait = "resolved"
        /\ nodes[Root].value = NoData
        /\ resolveNode(nodes, Root) = Plain(nodes[Root].kind, NoData, <<>>)
        /\ stack = <<>>
        /\ index = Len(doc)
  /\ (doc \in EmptyDocs /\ result.state = "fulfilled") =>
        result.value = Plain(IF doc[1] = "{" THEN "object" ELSE "array", NoData, <<>>)
  /\ (doc = DocAfter /\ pushed >= 2 /\ ParserIdle) =>
        (nodes[Root].wait = "resolved" /\ Len(text) = 2)

C13_Witness ==
  /\ EmptyPushed
  /\ doc = DocEmptyArrayWs
  /\ nodes[Root].wait = "resolved"
  /\ result.state = "fulfilled"
  /\ result.rootWait = "resolved"
  /\ result.value.t = "array"

RECURSIVE DigitRun(_)
\* The longest suffix of t made of digits and dots.
DigitRun(t) ==
  IF t # <<>> /\ (t[Len(t)] \in Digits \/ t[Len(t)] = ".")
  THEN Append(DigitRun(SubSeq(t, 1, Len(t) - 1)), t[Len(t)])
  ELSE <<>>

\* The text the running number builder has consumed: the digits and dots
\* before the cursor, with the sign in front of them if there is one.
ConsumedNumber ==
  LET t == SubSeq(text, 1, index)
      r == DigitRun(t)
      k == Len(t) - Len(r)
  IN  IF k >= 1 /\ t[k] = "-" THEN <<"-">> \o r ELSE r

\* The snapshots of the number of [-12.5], by the number of characters of
\* the document consumed: after [, -, 1, 2, ., 5 and ].
SnapshotsOfDocNumber ==
  <<Zero, Zero, Num(TRUE, 1, 0), Num(TRUE, 12, 0), Num(TRUE, 12, 0),
    Num(TRUE, 125, 1), Num(TRUE, 125, 1)>>

\* C14: while -, 1, 2, ., 5 are consumed the snapshot of the number node is
\* 0, -1, -12, -12, -12.5 in that order and ends at -12.5; for every
\* number, after each consumed digit or dot the snapshot is Number() of the
\* text consumed so far, and it is the initial 0 before the first of them.
C14_NumericUpdates ==
  /\ []((doc = DocNumber /\ Len(nodes) >= 2) =>
          /\ nodes[2].kind = "number"
          /\ index \in 1..7
          /\ nodes[2].data.n = SnapshotsOfDocNumber[index]
          /\ nodes[2].wait = "resolved" => nodes[2].value.n = Num(TRUE, 125, 1))
  /\ []((stack # <<>> /\ Top(P).fn = "parseNumber") =>
          /\ index <= Len(text)
          /\ Top(P).str = ConsumedNumber
          /\ nodes[Top(P).node].data.n =
                IF DigitRun(SubSeq(text, 1, index)) = <<>> THEN Zero
                ELSE Number(ConsumedNumber))
  /\ []((doc = DocDots /\ Len(nodes) >= 1 /\ index >= 2) =>
          nodes[1].data.n = (IF index = 3 THEN Num(TRUE, 5, 1) ELSE NaN))
  /\ [][index' >= index]_vars

C14_Witness ==
  /\ doc = DocNumber
  /\ pushed = 5
  /\ index = 5
  /\ stack # <<>>
  /\ Top(P).fn = "parseNumber"
  /\ ConsumedNumber = <<"-", "1", "2", ".">>
  /\ nodes[2].data.n = Num(TRUE, 12, 0)

\* The value each escape document completes with.
Decoded(d) ==
  CASE d = DocEscape -> <<"\n", "\t", "U+233">>
    [] d = DocEscapesQuote -> <<"\"", "\\", "/", "U+8">>
    [] d = DocEscapesControl -> <<"\f", "\n", "\r", "\t">>
    [] d = DocUnicode -> <<"J">>

\* C15: a string decodes \", \\, \/, \b, \f, \n, \r, \t to their single
\* character and \uXXXX to the character of that code: "\n\t\u00e9"
\* completes with newline, tab, U+00E9; no escape of these documents raises
\* an invalid-escape error, and none fails at all before the source ends.
C15_EscapeDecoding ==
  doc \in EscapeDocs =>
    /\ (pushed = Len(doc) /\ ParserIdle) =>
          /\ RootExists
          /\ nodes[Root].kind = "string"
          /\ nodes[Root].wait = "resolved"
          /\ nodes[Root].value.s = Decoded(doc)
    /\ \A n \in NodeIds :
          /\ nodes[n].err # InvalidEscapeSequence
          /\ nodes[n].wait = "rejected" => (ended /\ nodes[n].err = UnexpectedEndOfInput)
          /\ \E k \in 0..Len(Decoded(doc)) : nodes[n].data.s = SubSeq(Decoded(doc), 1, k)

C15_Witness ==
  /\ doc = DocEscape
  /\ RootExists
  /\ nodes[Root].wait = "resolved"
  /\ nodes[Root].value.s = <<"\n", "\t", fromCharCode(233)>>
  /\ Len(nodes[Root].value.s) = 3

RECURSIVE Mirrors(_, _)
\* The plain value v has the shape and the current snapshots of node n: its
\* scalar is the node's, its members are exactly the members attached to
\* the node, under the same keys, and each mirrors its node.
Mirrors(v, n) ==
  /\ v.t = nodes[n].kind
  /\ v.s = nodes[n].data.s
  /\ v.n = nodes[n].data.n
  /\ v.b = nodes[n].data.b
  /\ v.keys = nodes[n].data.keys
  /\ Len(v.items) = Len(nodes[n].data.items)
  /\ \A i \in 1..Len(v.items) : Mirrors(v.items[i], nodes[n].data.items[i])

\* C16: a resolve() called once the root value is dispatched fulfils
\* without waiting for the root's completion or the end of the source, and
\* returns the value populated so far: the members attached so far with
\* their current snapshots, and no member whose text has not been received.
C16_LiveResolve ==
  /\ []((waiting > 0 /\ RootExists) => ENABLED ResolveReturn)
  /\ [][(waiting' < waiting /\ RootExists) =>
          /\ result'.state = "fulfilled"
          /\ result'.rootWait = nodes[Root].wait
          /\ Mirrors(result'.value, Root)
          /\ (doc = DocPair /\ Len(text) <= 3) => Len(result'.value.items) <= 1
          /\ (doc = DocTitle /\ Len(text) <= 9) => result'.value.keys = <<>>]_vars

C16_Witness ==
  /\ doc = DocPair
  /\ pushed = 2
  /\ ~ended
  /\ result.state = "fulfilled"
  /\ result.rootWait = "pending"
  /\ Len(result.value.items) = 1
  /\ result.value.items[1].n = Num(FALSE, 1, 0)

\* A call of parseValue takes a step.
DispatcherSteps ==
  /\ stack # <<>>
  /\ Top(P).fn = "parseValue"
  /\ <<index, nodes, stack, stream, signal>>' # <<index, nodes, stack, stream, signal>>

\* The builder each character selects.
Routes(c) ==
  IF c = "{" THEN <<"object", "parseObject">>
  ELSE IF c = "[" THEN <<"array", "parseArray">>
  ELSE IF c = "\"" THEN <<"string", "parseString">>
  ELSE IF c = "t" \/ c = "f" THEN <<"boolean", "parseBoolean">>
  ELSE IF c = "n" THEN <<"null", "parseNull">>
  ELSE IF c = "-" \/ c \in {"0", "1", "2", "3", "4", "5", "6", "7", "8", "9"}
       THEN <<"number", "parseNumber">>
  ELSE <<"none", "none">>

\* The error of the parseValue call on top of the stack, as its caller
\* gets it: #stream for the root call, the awaiting container otherwise.
DispatchError ==
  IF Len(stack) = 1 THEN stream'.err ELSE signal'

\* C17: a step of parseValue on the next character c: whitespace is
\* skipped (when skipping is on); {, [, ", t/f, n, - or a digit make one node
\* of the kind they select and start its builder on c; any other character
\* makes the call fail with UnexpectedToken, with no node made and the
\* cursor left on c.
C17_Dispatcher ==
  [][(DispatcherSteps /\ Avail(P, 1)) =>
       LET c == text[index + 1]
       IN  IF Top(P).flag /\ c \in {" ", "\n", "\t", "\r"}
           THEN index' = index + 1 /\ nodes' = nodes /\ stack' = stack
           ELSE /\ index' = index
                /\ text' = text
                /\ IF Routes(c)[1] # "none"
                   THEN /\ Len(nodes') = Len(nodes) + 1
                        /\ SubSeq(nodes', 1, Len(nodes)) = nodes
                        /\ nodes'[Len(nodes')].kind = Routes(c)[1]
                        /\ nodes'[Len(nodes')].wait = "pending"
                        /\ Len(stack') = Len(stack)
                        /\ stack'[Len(stack')].fn = Routes(c)[2]
                        /\ stack'[Len(stack')].node = Len(nodes')
                        /\ signal' = "none"
                        /\ stream'.state # "rejected"
                   ELSE /\ nodes' = nodes
                        /\ Len(stack') = Len(stack) - 1
                        /\ DispatchError = UnexpectedToken
                        /\ Len(stack) = 1 => stream'.state = "rejected"]_vars

C17_Witness ==
  /\ text = <<"[", ",">>
  /\ index = 1
  /\ stack = <<>>
  /\ Len(nodes) = 1
  /\ nodes[1].wait = "rejected"
  /\ nodes[1].err = UnexpectedToken
  /\ nodes[1].data.items = <<>>

\* The whole text has been pushed and the parser has caught up.
WholePushed == pushed = Len(doc) /\ ParserIdle

\* C18: for a key k that is a run of letters, digits and underscores and a
\* value v, {k:v} completes, under every schedule, and resolves to the
\* record that {"k":v} resolves to: the one member k with the value of v.
C18_LenientKeys ==
  \A k \in LenientKeys, v \in MemberValues :
     /\ (doc = QuotedDoc(k, v) /\ WholePushed) =>
           /\ RootExists
           /\ nodes[Root].wait = "resolved"
           /\ resolveNode(nodes, Root).keys = <<k>>
           /\ resolveNode(nodes, Root) = FullValue(QuotedDoc(k, v))
     /\ (doc = LenientDoc(k, v) /\ WholePushed) =>
           /\ RootExists
           /\ nodes[Root].wait = "resolved"
           /\ resolveNode(nodes, Root) = FullValue(QuotedDoc(k, v))
     /\ (doc = LenientDoc(k, v) /\ result.state = "fulfilled"
           /\ result.rootWait = "resolved") =>
           result.value = FullValue(QuotedDoc(k, v))

C18_Witness ==
  /\ doc = LenientDoc(<<"B", "2">>, <<"-", "1">>)
  /\ WholePushed
  /\ nodes[Root].wait = "resolved"
  /\ nodes[Root].data.keys = << <<"B", "2">> >>
  /\ result.state = "fulfilled"
  /\ result.rootWait = "resolved"
  /\ result.value.items[1].n = Num(TRUE, 1, 0)

\* C19: in every reachable state, also after the source has ended and
\* after a failed next or expect, the read index of the cursor is at most
\* the length of its buffer.
C19_CursorWithinBuffer == index <= Len(text)

\* The suspended functions whose next step is a read of the cursor.
Readers == {i \in 1..Len(stack) : Need(stack[i]) > 0}

\* The nodes made by the builder of the same node p, in creation order.
Siblings(m, n) ==
  /\ m < n
  /\ nodes[m].parent # 0
  /\ nodes[m].parent = nodes[n].parent

\* C20: at most one builder has a read pending on the cursor (the innermost
\* one); a builder starts the next node only when the node it made before
\* has resolved; the unsettled nodes are a chain of ancestors, the running
\* builders; and the characters are consumed in source order.
C20_SequentialGrammar ==
  /\ [](/\ Cardinality(Readers) <= 1
        /\ Readers \subseteq {Len(stack)}
        /\ \A m, n \in NodeIds : Siblings(m, n) => nodes[m].wait = "resolved"
        /\ \A n \in NodeIds :
              nodes[n].wait = "pending" =>
                 /\ \E i \in 1..Len(stack) : stack[i].node = n
                 /\ nodes[n].parent # 0 => nodes[nodes[n].parent].wait = "pending"
        /\ \A i, j \in 1..Len(stack) :
              (i < j /\ stack[j].node # 0) => stack[i].node < stack[j].node
        /\ text = SubSeq(doc, 1, Len(text)))
  /\ [][index' >= index /\ (index' > index => text' = text)]_vars

C20_Witness ==
  /\ doc = DocPair
  /\ Len(nodes) = 3
  /\ Siblings(2, 3)
  /\ nodes[2].wait = "resolved"
  /\ nodes[3].wait = "pending"
  /\ Len(stack) = 2
  /\ Readers = {2}
  /\ index = 3

\* A step of a caller of resolve().
ReaderStep == <<calls, waiting, result>>' # <<calls, waiting, result>>

\* The parser state after the step.
PNext ==
  [text |-> text', index |-> index', nodes |-> nodes', stack |-> stack',
   stream |-> stream', signal |-> signal']

\* C21: a step of a caller of resolve() (the call, or the read of the
\* snapshots when it returns) changes neither the cursor nor any node nor
\* the source; and what the parser does next depends on the parser and the
\* source only: whatever the callers did, a parser that can step can still
\* step, and its step is the one its own state determines.
C21_ReaderNonInterference ==
  /\ [][ReaderStep => UNCHANGED <<doc, pushed, ended, parserVars>>]_vars
  /\ [][parserVars' # parserVars =>
          IF text' # text
          THEN /\ PeekEnabled
               /\ PNext = [P EXCEPT !.text = Append(text, doc[Len(text) + 1])]
          ELSE /\ Ready(P, AtEof)
               /\ PNext = Step(P)]_vars
  /\ [](Ready(P, AtEof) =>
          ENABLED (ParseValue \/ ParseObject \/ ParseArray \/ ParseNumber \/ ParseKey
                     \/ ParseIdentifier \/ ParseString \/ ParseBoolean \/ ParseNull))
  /\ [](PeekEnabled => ENABLED Peek)

C21_Witness ==
  /\ calls >= 1
  /\ waiting = 0
  /\ result.state = "fulfilled"
  /\ result.rootWait = "pending"
  /\ Len(result.value.items) = 1
  /\ nodes[Root].wait = "resolved"
  /\ Len(nodes[Root].data.items) = 2

\* Some node has failed.
SomeRejected == \E n \in NodeIds : nodes[n].wait = "rejected"

\* C22: the step in which a builder fails changes no snapshot and removes
\* no node, nor does any step after a failure: the failure shows only in
\* the rejected waits.  For {"a":tru}, once the boolean has failed, the
\* root keeps key a with the boolean node, whose snapshot is still true.
C22_NoRollback ==
  /\ [][(\E n \in NodeIds : nodes'[n].wait = "rejected") =>
          /\ Len(nodes') = Len(nodes)
          /\ \A n \in NodeIds : nodes'[n].data = nodes[n].data]_vars
  /\ []((doc = DocTru /\ \E n \in NodeIds : /\ nodes[n].kind = "boolean"
                                             /\ nodes[n].wait = "rejected") =>
          /\ nodes[Root].wait # "resolved"
          /\ nodes[Root].data.keys = << <<"a">> >>
          /\ Len(nodes[Root].data.items) = 1
          /\ nodes[nodes[Root].data.items[1]].kind = "boolean"
          /\ nodes[nodes[Root].data.items[1]].data.b = TRUE
          /\ resolveNode(nodes, Root).keys = << <<"a">> >>)

C22_Witness ==
  /\ doc = DocTru
  /\ RootExists
  /\ nodes[Root].wait = "rejected"
  /\ nodes[Root].err = UnexpectedToken
  /\ nodes[Root].data.keys = << <<"a">> >>
  /\ stack = <<>>

\* The number nodes whose completion resolves in the step.
NumbersCompleting ==
  {n \in NodeIds : /\ nodes[n].kind = "number"
                    /\ nodes[n].wait = "pending"
                    /\ nodes'[n].wait = "resolved"}

\* C23: the step that completes a number node consumes nothing: the cursor
\* stays on a buffered character that is neither a digit nor a dot, which
\* the enclosing container then reads; [1,2] completes with exactly the
\* elements 1 and 2, and {"a":1} completes with a = 1.
C23_NumberTerminatorUnconsumed ==
  /\ [][NumbersCompleting # {} =>
          /\ index' = index
          /\ index < Len(text)
          /\ text[index + 1] \notin {"0", "1", "2", "3", "4", "5", "6", "7", "8", "9", "."}
          /\ index >= 1 /\ text[index] \in {"0", "1", "2", "3", "4", "5", "6", "7", "8", "9", ".", "-"}]_vars
  /\ []((doc = DocPair /\ WholePushed) =>
          /\ nodes[Root].wait = "resolved"
          /\ Len(nodes[Root].value.items) = 2
          /\ nodes[nodes[Root].value.items[1]].value.n = Num(FALSE, 1, 0)
          /\ nodes[nodes[Root].value.items[2]].value.n = Num(FALSE, 2, 0)
          /\ index = 5)
  /\ []((doc = DocMember /\ WholePushed) =>
          /\ nodes[Root].wait = "resolved"
          /\ nodes[Root].value.keys = << <<"a">> >>
          /\ nodes[nodes[Root].value.items[1]].value.n = Num(FALSE, 1, 0))

C23_Witness ==
  /\ doc = DocPair
  /\ Len(nodes) = 2
  /\ nodes[2].kind = "number"
  /\ nodes[2].wait = "resolved"
  /\ index = 2
  /\ Len(text) >= 3
  /\ text[3] = ","
  /\ nodes[1].wait = "pending"

\* seq is a prefix of t.
IsPrefix(seq, t) == Len(seq) <= Len(t) /\ seq = SubSeq(t, 1, Len(seq))

\* C24: the snapshot of an object or array node is, from creation on, the
\* container it was made with (result.data is never assigned): children
\* are attached in place.  The elements of an array only grow, at the end,
\* and a key present in an object stays present.
C24_ContainerStable ==
  /\ [](\A n \in NodeIds : IsContainer(n) => nodes[n].assigned = 0)
  /\ [][\A n \in NodeIds :
          /\ nodes'[n].kind = nodes[n].kind
          /\ nodes[n].kind = "array" =>
                IsPrefix(nodes[n].data.items, nodes'[n].data.items)
          /\ nodes[n].kind = "object" =>
                /\ Len(nodes'[n].data.items) = Len(nodes'[n].data.keys)
                /\ \A i \in 1..Len(nodes[n].data.keys) :
                      \E j \in 1..Len(nodes'[n].data.keys) :
                         nodes'[n].data.keys[j] = nodes[n].data.keys[i]]_vars

C24_Witness ==
  /\ doc = DocDupKey
  /\ RootExists
  /\ nodes[Root].wait = "resolved"
  /\ nodes[Root].assigned = 0
  /\ nodes[Root].data.keys = << <<"a">>, <<"b">> >>
  /\ \E n \in NodeIds : nodes[n].kind = "number" /\ nodes[n].assigned = 1

\* The string builder of node n is the innermost running function, at pc.
StringAt(n, pc) ==
  /\ stack # <<>>
  /\ Top(P).fn = "parseString"
  /\ Top(P).node = n
  /\ Top(P).pc = pc

\* The step consumes one character, which is the quote.
ConsumesQuote == index' = index + 1 /\ index < Len(text) /\ text[index + 1] = "\""

\* C25: a step changes the snapshot of a string node by appending exactly
\* one character (one update), or not at all, so every snapshot is a prefix
\* of the later ones; consuming the opening quote and the closing quote
\* appends nothing; and the node completes in the step, and only in the
\* step, that consumes a quote which is not part of an escape.
C25_StringGrowth ==
  [][\A n \in NodeIds :
       nodes[n].kind = "string" =>
          /\ \/ nodes'[n].data = nodes[n].data /\ nodes'[n].assigned = nodes[n].assigned
             \/ /\ Len(nodes'[n].data.s) = Len(nodes[n].data.s) + 1
                /\ IsPrefix(nodes[n].data.s, nodes'[n].data.s)
                /\ nodes'[n].assigned = nodes[n].assigned + 1
                /\ nodes[n].wait = "pending"
          /\ nodes[n].assigned = Len(nodes[n].data.s)
          /\ (StringAt(n, "open") \/ (StringAt(n, "body") /\ ConsumesQuote)) =>
                nodes'[n].data = nodes[n].data
          /\ (nodes[n].wait = "pending" /\ nodes'[n].wait = "resolved") =>
                (StringAt(n, "body") /\ ConsumesQuote)
          /\ (StringAt(n, "body") /\ ConsumesQuote) =>
                (nodes'[n].wait = "resolved" /\ nodes'[n].value = nodes[n].data)
          /\ (StringAt(n, "escape") /\ ConsumesQuote) =>
                /\ nodes'[n].wait = "pending"
                /\ nodes'[n].data.s = Append(nodes[n].data.s, "\"")]_vars

C25_Witness ==
  /\ doc = DocEscapesQuote
  /\ RootExists
  /\ nodes[Root].kind = "string"
  /\ nodes[Root].wait = "pending"
  /\ nodes[Root].data.s = <<"\"", "\\">>
  /\ nodes[Root].assigned = 2
  /\ index = 5

RECURSIVE Unspaced(_, _, _)
\* The text d without its whitespace characters that are outside strings;
\* inString and escaped tell where the scan is.
Unspaced(d, inString, escaped) ==
  IF d = <<>> THEN <<>>
  ELSE LET c == d[1]
       IN  IF inString
           THEN <<c>> \o Unspaced(Tail(d), escaped \/ c # "\"", ~escaped /\ c = "\\")
           ELSE IF c \in {" ", "\t", "\n", "\r"} THEN Unspaced(Tail(d), FALSE, FALSE)
           ELSE <<c>> \o Unspaced(Tail(d), c = "\"", FALSE)

\* The outcome of the whole-text run on d.
FullOutcome(d) ==
  IF FullRun[d].stream.state = "fulfilled"
  THEN [state |-> FullRun[d].nodes[FullRun[d].stream.node].wait,
        err |-> FullRun[d].nodes[FullRun[d].stream.node].err]
  ELSE [state |-> FullRun[d].stream.state, err |-> FullRun[d].stream.err]

\* C26: a document with whitespace (space, tab, newline, carriage return)
\* before the root value and around the tokens of its containers ends as
\* the document without that whitespace does: it completes or fails alike,
\* with the same value; whitespace inside a string stays in the string.
C26_WhitespaceInsensitive ==
  /\ (doc \in SpacedDocs /\ WholePushed) =>
        /\ Unspaced(doc, FALSE, FALSE) # doc
        /\ RootOutcome = FullOutcome(Unspaced(doc, FALSE, FALSE))
        /\ RootExists =>
              resolveNode(nodes, Root) = FullValue(Unspaced(doc, FALSE, FALSE))
  /\ (doc \in {DocPairSpaced, DocMemberSpaced, DocInnerSpaceSpaced} /\ WholePushed) =>
        nodes[Root].wait = "resolved"
  /\ (doc = DocInnerSpaceSpaced /\ WholePushed) =>
        resolveNode(nodes, Root).items[1].s = <<" ", "a">>
  /\ (doc = DocCommaSpaced /\ WholePushed) =>
        RootOutcome = [state |-> "rejected", err |-> UnexpectedToken]

C26_Witness ==
  /\ doc = DocMemberSpaced
  /\ WholePushed
  /\ nodes[Root].wait = "resolved"
  /\ index = 12
  /\ resolveNode(nodes, Root) = FullValue(DocMember)

RECURSIVE HexValue(_, _)
\* The value of the hex digits s, acc so far, with no reduction.
HexValue(s, acc) ==
  IF s = <<>> THEN acc ELSE HexValue(Tail(s), acc * 16 + HexVal(s[1]))

\* The character of code point cp, written as fromCharCode writes a code
\* unit; a code point above 65535 is no single code unit.
CodePointChar(cp) == IF cp < 65536 THEN fromCharCode(cp) ELSE "U+" \o ToString(cp)

\* C27: the escape \U followed by 8 hex digits takes exactly those 8
\* characters and appends the character whose code point is their value,
\* also when the value is above 0xFFFF: "\U0001F600" is the one character
\* of code point 128512.
C27_LongEscapeCodePoint ==
  (doc = DocLongEscape /\ RootExists /\ nodes[Root].wait = "resolved") =>
     /\ index = Len(DocLongEscape)
     /\ nodes[Root].data.s = <<CodePointChar(HexValue(SubSeq(DocLongEscape, 4, 11), 0))>>

\* The number nodes whose completion rejects in the step.
NumbersRejecting ==
  {n \in NodeIds : /\ nodes[n].kind = "number"
                    /\ nodes[n].wait = "pending"
                    /\ nodes'[n].wait = "rejected"}

\* The number builder is at rest on the last buffered character.
NumberWaiting ==
  /\ stack # <<>>
  /\ Top(P).fn = "parseNumber"
  /\ index = Len(text)
  /\ ParserIdle

\* C28: a number node completes only in a step that finds, buffered after
\* the number, a character that is neither a digit nor a dot; with its last
\* digit as the last buffered character the node stays pending, and when
\* the source ends there its completion rejects with UnexpectedEndOfInput
\* while its snapshot keeps the number read: so for the document 7 and for
\* [-12.5 cut after the 5.
C28_NumberNeedsTerminator ==
  /\ [][\A n \in NodeIds :
          (nodes[n].kind = "number" /\ nodes[n].wait = "pending" /\ nodes'[n].wait = "resolved") =>
             /\ index < Len(text)
             /\ text[index + 1] \notin numbers \cup {"."}
             /\ nodes'[n].value = nodes[n].data]_vars
  /\ [][\A n \in NumbersRejecting :
          /\ ended /\ index = Len(text) /\ Len(text) = pushed
          /\ nodes'[n].err = UnexpectedEndOfInput
          /\ nodes'[n].data = nodes[n].data]_vars
  /\ [](NumberWaiting =>
          /\ nodes[Top(P).node].wait = "pending"
          /\ ~ended
          /\ DigitRun(text) # <<>> => nodes[Top(P).node].data.n = Number(ConsumedNumber))
  /\ []((doc = DocRootNumber /\ pushed = 1 /\ ended /\ ParserIdle) =>
          /\ nodes[Root].kind = "number"
          /\ nodes[Root].wait = "rejected"
          /\ nodes[Root].err = UnexpectedEndOfInput
          /\ nodes[Root].data.n = Num(FALSE, 7, 0))
  /\ []((doc = DocNumber /\ pushed = 6 /\ ended /\ ParserIdle) =>
          /\ nodes[2].kind = "number"
          /\ nodes[2].wait = "rejected"
          /\ nodes[2].err = UnexpectedEndOfInput
          /\ nodes[2].data.n = Number(<<"-", "1", "2", ".", "5">>)
          /\ nodes[Root].wait = "rejected")

C28_Witness ==
  /\ doc = DocRootNumber
  /\ pushed = 1
  /\ ended
  /\ RootExists
  /\ nodes[Root].kind = "number"
  /\ nodes[Root].wait = "rejected"
  /\ nodes[Root].err = UnexpectedEndOfInput
  /\ nodes[Root].data.n = Num(FALSE, 7, 0)

\* C29: a comma directly before the closing bracket is accepted: [1,] and
\* {"a":1,} complete, under every schedule, with the members read before
\* the comma, every character consumed, and no node failing; the builder
\* that has consumed the comma closes the container on the bracket.
C29_TrailingSeparatorAccepted ==
  /\ []((doc = DocTrailing /\ WholePushed) =>
          /\ nodes[Root].wait = "resolved"
          /\ index = Len(DocTrailing)
          /\ Len(nodes) = 2
          /\ nodes[Root].value.items = <<2>>
          /\ nodes[2].value.n = Num(FALSE, 1, 0)
          /\ resolveNode(nodes, Root).t = "array")
  /\ []((doc = DocTrailingMember /\ WholePushed) =>
          /\ nodes[Root].wait = "resolved"
          /\ index = Len(DocTrailingMember)
          /\ resolveNode(nodes, Root) = FullValue(DocMember))
  /\ []((doc \in {DocTrailing, DocTrailingMember}) =>
          \A n \in NodeIds : nodes[n].wait = "rejected" => nodes[n].err = UnexpectedEndOfInput)
  /\ [][(/\ doc \in {DocTrailing, DocTrailingMember}
          /\ index = Len(doc) - 1
          /\ index' = Len(doc))
         => (text[index] = "," /\ nodes[Root].wait = "pending" /\ nodes'[Root].wait = "resolved")]_vars

C29_Witness ==
  /\ doc = DocTrailingMember
  /\ WholePushed
  /\ nodes[Root].wait = "resolved"
  /\ index = 8
  /\ text[7] = ","
  /\ nodes[Root].value.keys = << <<"a">> >>

\* The completion of the root node has settled.
RootSettled == RootExists /\ nodes[Root].wait # "pending"

\* C30: once the completion of the root node has settled, no step takes a
\* character from the source, moves the cursor or changes a node, whatever
\* is pushed and whether or not the source ends: no builder is left.  Of
\* {}x the x is never read: the root stays resolved with the empty object,
\* and resolve() returns it.
C30_QuiescentAfterRoot ==
  /\ [][RootSettled => UNCHANGED <<text, index, nodes, stack, stream, signal>>]_vars
  /\ [](RootSettled => (stack = <<>> /\ ~PeekEnabled /\ ~Ready(P, AtEof)))
  /\ []((doc = DocAfter /\ RootSettled /\ pushed >= 2) =>
          /\ nodes[Root].wait = "resolved"
          /\ text = <<"{", "}">>
          /\ index = 2
          /\ Len(nodes) = 1
          /\ resolveNode(nodes, Root).t = "object"
          /\ resolveNode(nodes, Root).keys = <<>>)
  /\ []((doc = DocAfter /\ pushed = 3 /\ result.state # "none") =>
          /\ result.state # "rejected"
          /\ result.state = "fulfilled" => result.value = FullValue(DocEmptyObject))

C30_Witness ==
  /\ doc = DocAfter
  /\ pushed = 3
  /\ ended
  /\ RootSettled
  /\ nodes[Root].wait = "resolved"
  /\ Len(text) = 2
  /\ result.state = "fulfilled"

====
